---- MODULE Spec2Model ----
(***************************************************************************)
(* MediaFlow, OCR subtitle core.                                           *)
(*                                                                         *)
(*   src-tauri/src/tools/ocr/subtitles.rs  similarity metric, candidate    *)
(*       selector, segment stabilizer, cue cleanup and merge pass          *)
(*   src-tauri/src/lib.rs                  perform_ocr, the parallel frame *)
(*       OCR scheduler, and the cancellation registry OCR_PROCESS_IDS      *)
(*                                                                         *)
(* Three specifications share the variables:                               *)
(*   Spec     generate_subtitles_core, one loop iteration per step         *)
(*   SpecOcr  perform_ocr, its workers and cancel_ocr_operation            *)
(*   SpecSim  texts_are_similar applied to pairs of keys                   *)
(*                                                                         *)
(* Texts are sequences of one-character strings.  Reals on a grid are      *)
(* integers: confidences, thresholds and scores in hundredths, so that the *)
(* code's 1e-9 tolerances fall below the grid and an inequality            *)
(* "x > y + 1e-9" reads "x > y", "x + 1e-9 >= y" reads "x >= y".           *)
(* u64 is modelled with U64Bits bits; saturating and checked arithmetic    *)
(* keep their meaning at that width.                                       *)
(***************************************************************************)
EXTENDS Integers, Sequences, FiniteSets, TLC

VARIABLES
    \* ---- generate_subtitles_core
    frame_results,  \* the input slice of OcrFrameResult
    fps,            \* frames per second (an integer here)
    min_confidence, \* in hundredths, as passed by the caller
    cleanup,        \* OcrSubtitleCleanupOptions
    pc,             \* position in generate_subtitles_core
    i,              \* loop index of the stabilizer loop (0-based)
    segments,       \* Vec<SubtitleSegment>, closed segments
    current,        \* Option<SubtitleSegment>
    subtitles,      \* the returned Vec<OcrSubtitleEntry>
    subtitles2,     \* what a second run on the same arguments returns
    raw_subtitles,  \* the entries built from the segments, before the cleanup
    on_progress_calls, \* the (current, total) on_progress was invoked with
    via_command,    \* called through the command generate_subtitles_from_ocr
    events,         \* the "ocr-progress" events the command emitted
    result,         \* "none" | "ok" | the error string
    last,           \* what the last loop iteration did (history)
    \* ---- texts_are_similar applied to a pair
    sim_a, sim_b, sim_threshold, sim_pc, sim_ab, sim_ba,
    \* ---- perform_ocr
    OCR_PROCESS_IDS,   \* the registry: file ids -> pid (0 for an OCR run)
    ocr_pc,            \* position of the perform_ocr call
    ocr_fps,           \* its fps argument
    frames_dir,        \* what its frames_dir argument names on disk
    models_dir,        \* whether get_ocr_models_dir finds the models
    chunks,            \* the chunks of (frame_index) handed to the workers
    worker,            \* per chunk: position, next frame, worker_results, ...
    frame_outcome,     \* per frame: "pending", "ok", "decode_err", "ocr_err"
    progress_counter,  \* the shared AtomicU32
    saved_error,       \* the first Err the parallel collect recorded
    cancel_calls,      \* number of cancel_ocr_operation calls made
    extract_pc,        \* position of an extract_ocr_frames call on the same file_id
    ocr_events,        \* the "ocr-progress" events perform_ocr emitted
    ocr_result,        \* what perform_ocr returned
    \* ---- the adjacent-merge pass of generate_subtitles_core, entry by entry
    merge_subtitles,   \* `subtitles` when the pass begins (after the filter)
    merge_cleanup,     \* the cleanup options of the call
    merge_pos,         \* how many entries `for sub in subtitles` has visited
    merged,            \* the Vec `merged`
    merge_pc,          \* "idle" | "loop" | "done"
    \* ---- select_segment_text applied to the candidates of one segment
    select_candidates, \* the segment's Vec<SegmentCandidate>
    select_result,     \* Option<(String, f64)> it returned
    select_entries,    \* the entries built from the segment
    select_pc,         \* "idle" | "ready" | "done"
    \* ---- the end time of one segment of a frame list
    timing_frames,     \* frame_results
    timing_fps,        \* fps
    timing_seg,        \* the segment: where it starts and was last seen
    timing_step,       \* inferred_frame_step_ms
    timing_end,        \* what segment_end_time_ms returned
    timing_pc,         \* "idle" | "infer" | "end" | "done"
    \* ---- the division of the frame list of perform_ocr into chunks
    chunk_total,       \* frames.len()
    chunk_workers,     \* the num_workers argument
    chunk_list,        \* the Vec `chunks`
    chunk_threads,     \* num_threads of the rayon pool
    chunk_pc           \* "idle" | "split" | "pool" | "done"

pipe_vars == <<frame_results, fps, min_confidence, cleanup, pc, i, segments,
               current, subtitles, subtitles2, raw_subtitles, on_progress_calls,
               via_command, events, result, last>>
sim_vars  == <<sim_a, sim_b, sim_threshold, sim_pc, sim_ab, sim_ba>>
ocr_args  == <<ocr_fps, frames_dir, models_dir>>
ocr_vars  == <<OCR_PROCESS_IDS, ocr_pc, ocr_args, chunks, worker, frame_outcome,
               progress_counter, saved_error, cancel_calls, extract_pc, ocr_events,
               ocr_result>>
merge_vars == <<merge_subtitles, merge_cleanup, merge_pos, merged, merge_pc>>
select_vars == <<select_candidates, select_result, select_entries, select_pc>>
timing_vars == <<timing_frames, timing_fps, timing_seg, timing_step, timing_end,
                 timing_pc>>
chunk_vars == <<chunk_total, chunk_workers, chunk_list, chunk_threads, chunk_pc>>
fn_vars   == <<merge_vars, select_vars, timing_vars, chunk_vars>>
vars      == <<pipe_vars, sim_vars, ocr_vars, fn_vars>>

(***************************************************************************)
(* Bounds                                                                  *)
(***************************************************************************)
U64Bits == 6
MaxFrames == 4
MaxKeyLen == 3
MaxOcrFrames == 3
MaxWorkers == 2
MaxCancels == 1

U64_MAX == 2^U64Bits - 1

(***************************************************************************)
(* Option<T>                                                               *)
(***************************************************************************)
None == <<>>
Some(x) == <<x>>
IsSome(o) == o # None
Unwrap(o) == o[1]

Min2(x, y) == IF x <= y THEN x ELSE y
Max2(x, y) == IF x >= y THEN x ELSE y

\* u64 arithmetic
saturating_sub(x, y) == IF x >= y THEN x - y ELSE 0
saturating_add(x, y) == IF x + y > U64_MAX THEN U64_MAX ELSE x + y
checked_add(x, y) == IF x + y > U64_MAX THEN None ELSE Some(x + y)
\* `f as u64` for a non-negative rounded float: saturates at u64::MAX
as_u64(x) == IF x < 0 THEN 0 ELSE IF x > U64_MAX THEN U64_MAX ELSE x

(***************************************************************************)
(* Text helpers                                                            *)
(***************************************************************************)
NaN == 0 - 1   \* stands for a NaN f64 where one may be passed

clamp_f64(value, min, max) ==
    IF value = NaN THEN min ELSE Min2(Max2(value, min), max)

Whitespace == {" ", "\t", "\n"}
AsciiPunctuation == {"!", ".", ",", "?", "-", ":", "/"}
UpperCase == {"A", "B", "X", "Y"}

is_whitespace(c) == c \in Whitespace

to_lowercase_char(c) ==
    CASE c = "A" -> "a" [] c = "B" -> "b" [] c = "X" -> "x" [] c = "Y" -> "y"
      [] OTHER -> c

to_lowercase(text) == [k \in 1..Len(text) |-> to_lowercase_char(text[k])]

\* str::trim_matches with the predicate given as the set of matching chars
RECURSIVE trim_start_matches(_, _)
trim_start_matches(text, matching) ==
    IF text # <<>> /\ Head(text) \in matching
    THEN trim_start_matches(Tail(text), matching)
    ELSE text

RECURSIVE trim_end_matches(_, _)
trim_end_matches(text, matching) ==
    IF text # <<>> /\ text[Len(text)] \in matching
    THEN trim_end_matches(SubSeq(text, 1, Len(text) - 1), matching)
    ELSE text

trim_matches(text, matching) ==
    trim_end_matches(trim_start_matches(text, matching), matching)

trim(text) == trim_matches(text, Whitespace)

RECURSIVE collapse_loop(_, _, _)
collapse_loop(text, out, last_was_space) ==
    IF text = <<>> THEN out
    ELSE IF is_whitespace(Head(text))
         THEN collapse_loop(Tail(text),
                            IF ~last_was_space /\ out # <<>>
                            THEN Append(out, " ") ELSE out,
                            TRUE)
         ELSE collapse_loop(Tail(text), Append(out, Head(text)), FALSE)

collapse_whitespace(text) == trim(collapse_loop(text, <<>>, FALSE))

is_edge_punctuation(c) == is_whitespace(c) \/ c \in AsciiPunctuation

LowerCase == {"a", "b", "c", "e", "g", "h", "i", "m", "n", "o", "p", "r", "s",
              "t", "v", "w", "x", "y"}
Digits == {"0", "1"}
Chars == LowerCase \cup UpperCase \cup Digits \cup Whitespace
             \cup AsciiPunctuation

\* the chars is_edge_punctuation accepts
EdgePunctuation == {c \in Chars : is_edge_punctuation(c)}

normalize_text_for_compare(text) ==
    to_lowercase(trim_matches(collapse_whitespace(text), EdgePunctuation))

\* str::contains: needle occurs as a contiguous run of hay
contains(hay, needle) ==
    \E s \in 0..(Len(hay) - Len(needle)) :
        SubSeq(hay, s + 1, s + Len(needle)) = needle

(***************************************************************************)
(* Similarity metric                                                       *)
(***************************************************************************)
RECURSIVE SeqMin(_)
SeqMin(s) == IF Len(s) = 1 THEN s[1] ELSE Min2(s[1], SeqMin(Tail(s)))

\* the inner loop of levenshtein_distance_bounded: cur holds cur[0..i]
RECURSIVE lev_row(_, _, _, _, _)
lev_row(short, long_ch, prev, cur, k) ==
    IF k = Len(short) THEN cur
    ELSE LET cost == IF short[k + 1] # long_ch THEN 1 ELSE 0
             ins  == cur[k + 1] + 1
             del  == prev[k + 2] + 1
             sub  == prev[k + 1] + cost
             val  == Min2(Min2(ins, del), sub)
         IN  lev_row(short, long_ch, prev, Append(cur, val), k + 1)

\* the outer loop: prev is the row of j long characters consumed
RECURSIVE lev_rows(_, _, _, _, _)
lev_rows(short, long, max_dist, prev, j) ==
    IF j = Len(long)
    THEN IF prev[Len(short) + 1] <= max_dist
         THEN Some(prev[Len(short) + 1]) ELSE None
    ELSE LET cur == lev_row(short, long[j + 1], prev, <<j + 1>>, 0)
         IN  IF SeqMin(cur) > max_dist THEN None
             ELSE lev_rows(short, long, max_dist, cur, j + 1)

levenshtein_distance_bounded(a, b, max_dist) ==
    LET short == IF Len(a) <= Len(b) THEN a ELSE b
        long  == IF Len(a) <= Len(b) THEN b ELSE a
    IN  IF saturating_sub(Len(long), Len(short)) > max_dist THEN None
        ELSE lev_rows(short, long, max_dist,
                      [k \in 1..(Len(short) + 1) |-> k - 1], 0)

\* ceil(n / d) for n >= 0, d > 0
CeilDiv(n, d) == (n + d - 1) \div d

\* texts_are_similar with the containment shortcut tested in one direction
texts_are_similar_one_way(a_key, b_key, threshold) ==
    LET a_len == Len(a_key)
        b_len == Len(b_key)
        min_len == Min2(a_len, b_len)
        max_len == Max2(a_len, b_len)
    IN  IF a_key = b_key THEN TRUE
        ELSE IF /\ contains(a_key, b_key)
                /\ ((max_len - min_len) <= 2 \/ min_len * 100 >= 70 * max_len)
        THEN TRUE
        ELSE IF min_len < 6
        THEN IF a_len # b_len THEN FALSE
             ELSE LET d == levenshtein_distance_bounded(a_key, b_key, 1)
                  IN  IsSome(d) /\ Unwrap(d) <= 1
        ELSE LET th == clamp_f64(threshold, 0, 100)
                 max_dist == CeilDiv((100 - th) * max_len, 100)
             IN  IF max_dist = 0 THEN FALSE
                 ELSE LET d == levenshtein_distance_bounded(a_key, b_key, max_dist)
                      IN  IF d = None THEN FALSE
                          ELSE (max_len - Unwrap(d)) * 100 >= th * max_len

\* texts_are_similar without the containment heuristic
texts_are_similar_no_containment(a_key, b_key, threshold) ==
    LET a_len == Len(a_key)
        b_len == Len(b_key)
        min_len == Min2(a_len, b_len)
        max_len == Max2(a_len, b_len)
    IN  IF a_key = b_key THEN TRUE
        ELSE IF min_len < 6
        THEN IF a_len # b_len THEN FALSE
             ELSE LET d == levenshtein_distance_bounded(a_key, b_key, 1)
                  IN  IsSome(d) /\ Unwrap(d) <= 1
        ELSE LET th == clamp_f64(threshold, 0, 100)
                 max_dist == CeilDiv((100 - th) * max_len, 100)
             IN  IF max_dist = 0 THEN FALSE
                 ELSE LET d == levenshtein_distance_bounded(a_key, b_key, max_dist)
                      IN  IF d = None THEN FALSE
                          ELSE (max_len - Unwrap(d)) * 100 >= th * max_len

\* texts_are_similar without the final comparison of the similarity
texts_are_similar_bound_only(a_key, b_key, threshold) ==
    LET a_len == Len(a_key)
        b_len == Len(b_key)
        min_len == Min2(a_len, b_len)
        max_len == Max2(a_len, b_len)
    IN  IF a_key = b_key THEN TRUE
        ELSE IF /\ (contains(a_key, b_key) \/ contains(b_key, a_key))
                /\ ((max_len - min_len) <= 2 \/ min_len * 100 >= 70 * max_len)
        THEN TRUE
        ELSE IF min_len < 6
        THEN IF a_len # b_len THEN FALSE
             ELSE LET d == levenshtein_distance_bounded(a_key, b_key, 1)
                  IN  IsSome(d) /\ Unwrap(d) <= 1
        ELSE LET th == clamp_f64(threshold, 0, 100)
                 max_dist == CeilDiv((100 - th) * max_len, 100)
             IN  IF max_dist = 0 THEN FALSE
                 ELSE levenshtein_distance_bounded(a_key, b_key, max_dist) # None

\* texts_are_similar without the short-text path
texts_are_similar_no_short_path(a_key, b_key, threshold) ==
    LET a_len == Len(a_key)
        b_len == Len(b_key)
        min_len == Min2(a_len, b_len)
        max_len == Max2(a_len, b_len)
    IN  IF a_key = b_key THEN TRUE
        ELSE IF /\ (contains(a_key, b_key) \/ contains(b_key, a_key))
                /\ ((max_len - min_len) <= 2 \/ min_len * 100 >= 70 * max_len)
        THEN TRUE
        ELSE LET th == clamp_f64(threshold, 0, 100)
                 max_dist == CeilDiv((100 - th) * max_len, 100)
             IN  IF max_dist = 0 THEN FALSE
                 ELSE LET d == levenshtein_distance_bounded(a_key, b_key, max_dist)
                      IN  IF d = None THEN FALSE
                          ELSE (max_len - Unwrap(d)) * 100 >= th * max_len

\* texts_are_similar with the short-text path taken before the containment
\* heuristic
texts_are_similar_short_first(a_key, b_key, threshold) ==
    LET a_len == Len(a_key)
        b_len == Len(b_key)
        min_len == Min2(a_len, b_len)
        max_len == Max2(a_len, b_len)
    IN  IF a_key = b_key THEN TRUE
        ELSE IF min_len < 6
        THEN IF a_len # b_len THEN FALSE
             ELSE LET d == levenshtein_distance_bounded(a_key, b_key, 1)
                  IN  IsSome(d) /\ Unwrap(d) <= 1
        ELSE IF /\ (contains(a_key, b_key) \/ contains(b_key, a_key))
                /\ ((max_len - min_len) <= 2 \/ min_len * 100 >= 70 * max_len)
        THEN TRUE
        ELSE LET th == clamp_f64(threshold, 0, 100)
                 max_dist == CeilDiv((100 - th) * max_len, 100)
             IN  IF max_dist = 0 THEN FALSE
                 ELSE LET d == levenshtein_distance_bounded(a_key, b_key, max_dist)
                      IN  IF d = None THEN FALSE
                          ELSE (max_len - Unwrap(d)) * 100 >= th * max_len

texts_are_similar(a_key, b_key, threshold) ==
    LET a_len == Len(a_key)
        b_len == Len(b_key)
        min_len == Min2(a_len, b_len)
        max_len == Max2(a_len, b_len)
    IN  IF a_key = b_key THEN TRUE
        ELSE IF /\ (contains(a_key, b_key) \/ contains(b_key, a_key))
                /\ ((max_len - min_len) <= 2 \/ min_len * 100 >= 70 * max_len)
        THEN TRUE
        ELSE IF min_len < 6
        THEN IF a_len # b_len THEN FALSE
             ELSE LET d == levenshtein_distance_bounded(a_key, b_key, 1)
                  IN  IsSome(d) /\ Unwrap(d) <= 1
        ELSE LET th == clamp_f64(threshold, 0, 100)
                 max_dist == CeilDiv((100 - th) * max_len, 100)
             IN  IF max_dist = 0 THEN FALSE
                 ELSE LET d == levenshtein_distance_bounded(a_key, b_key, max_dist)
                      IN  IF d = None THEN FALSE
                          \* 1 - dist/max_len + 1e-9 >= threshold
                          ELSE (max_len - Unwrap(d)) * 100 >= th * max_len

(***************************************************************************)
(* Timing helpers                                                          *)
(***************************************************************************)
\* f64 round(): half away from zero, for n / d with n >= 0, d > 0
RoundDiv(n, d) == (2 * n + d) \div (2 * d)

frame_end_time_ms(frame_index, fps_) ==
    as_u64(RoundDiv((frame_index + 1) * 1000, fps_))

RECURSIVE InsertSorted(_, _)
InsertSorted(x, s) ==
    IF s = <<>> THEN <<x>>
    ELSE IF x <= Head(s) THEN <<x>> \o s
    ELSE <<Head(s)>> \o InsertSorted(x, Tail(s))

RECURSIVE sort_unstable(_)
sort_unstable(s) == IF s = <<>> THEN <<>> ELSE InsertSorted(Head(s), sort_unstable(Tail(s)))

\* the positive deltas of frame_results.windows(2), in input order
RECURSIVE PositiveDeltas(_)
PositiveDeltas(frames) ==
    IF Len(frames) < 2 THEN <<>>
    ELSE LET delta == saturating_sub(frames[2].time_ms, frames[1].time_ms)
         IN  (IF delta > 0 THEN <<delta>> ELSE <<>>) \o PositiveDeltas(Tail(frames))

\* infer_frame_step_ms giving up when fewer than two deltas are positive
infer_frame_step_ms_two_deltas(frames) ==
    IF Len(frames) < 2 THEN None
    ELSE LET deltas == sort_unstable(PositiveDeltas(frames))
         IN  IF Len(deltas) < 2 THEN None
             ELSE Some(deltas[(Len(deltas) \div 2) + 1])

infer_frame_step_ms(frames) ==
    IF Len(frames) < 2 THEN None
    ELSE LET deltas == sort_unstable(PositiveDeltas(frames))
         IN  IF deltas = <<>> THEN None
             ELSE Some(deltas[(Len(deltas) \div 2) + 1])

segment_end_time_ms(start_time, last_seen_time, last_seen_frame_index, frame_step_ms, fps_) ==
    LET stepped == IF IsSome(frame_step_ms)
                   THEN checked_add(last_seen_time, Unwrap(frame_step_ms))
                   ELSE None
        end_time == IF IsSome(stepped) THEN Unwrap(stepped)
                    ELSE frame_end_time_ms(last_seen_frame_index, fps_)
    IN  IF end_time <= start_time THEN saturating_add(start_time, 1)
        ELSE end_time

(***************************************************************************)
(* Candidate selector                                                      *)
(***************************************************************************)
\* the distinct keys of the candidates, in order of first occurrence
RECURSIVE DistinctKeys(_, _)
DistinctKeys(candidates, seen) ==
    IF candidates = <<>> THEN seen
    ELSE DistinctKeys(Tail(candidates),
                      IF \E k \in 1..Len(seen) : seen[k] = Head(candidates).key
                      THEN seen ELSE Append(seen, Head(candidates).key))

\* the first loop of select_segment_text, for one key:
\* (count, max_confidence, text_at_max_confidence)
RECURSIVE group_stats(_, _, _)
group_stats(candidates, key, entry) ==
    IF candidates = <<>> THEN entry
    ELSE LET c == Head(candidates)
         IN  IF c.key # key THEN group_stats(Tail(candidates), key, entry)
             ELSE LET e0 == IF entry = None
                            THEN [count |-> 0, max_conf |-> 0, text |-> c.text]
                            ELSE Unwrap(entry)
                      e1 == [e0 EXCEPT !.count = e0.count + 1]
                      e2 == IF c.confidence > e1.max_conf
                            THEN [e1 EXCEPT !.max_conf = c.confidence,
                                            !.text = c.text]
                            ELSE e1
                  IN  group_stats(Tail(candidates), key, Some(e2))

\* group_score without the frequency bonus
group_score_no_frequency(stat, total_candidates) ==
    10 * stat.max_conf * total_candidates
      + Min2(5 * Len(stat.text), 50) * total_candidates

\* max_conf + frequency_bonus + length_bonus, times 1000 * total_candidates
group_score(stat, total_candidates) ==
    10 * stat.max_conf * total_candidates
      + 50 * stat.count
      + Min2(5 * Len(stat.text), 50) * total_candidates

\* the second loop, visiting the groups in the order `order` of their keys
RECURSIVE select_loop(_, _, _, _)
select_loop(candidates, order, best, best_score) ==
    IF order = <<>> THEN best
    ELSE LET stat  == Unwrap(group_stats(candidates, Head(order), None))
             score == group_score(stat, Len(candidates))
         IN  IF score > best_score
             THEN select_loop(candidates, Tail(order),
                              Some(<<stat.text, stat.max_conf>>), score)
             ELSE select_loop(candidates, Tail(order), best, best_score)

\* `order` is the iteration order of the HashMap `stats`
select_segment_text(candidates, order) ==
    IF candidates = <<>> THEN None
    ELSE select_loop(candidates, order, None, 0 - 1)

IndexPermutations(s) ==
    {p \in [1..Len(s) -> 1..Len(s)] :
        \A x, y \in 1..Len(s) : x # y => p[x] # p[y]}

\* HashMap iteration order is unspecified: every order of the keys can occur
IterationOrders(candidates) ==
    LET keys == DistinctKeys(candidates, <<>>)
    IN  {[k \in 1..Len(keys) |-> keys[p[k]]] : p \in IndexPermutations(keys)}

SelectOutcomes(candidates) ==
    {select_segment_text(candidates, order) : order \in IterationOrders(candidates)}

(***************************************************************************)
(* URL filter                                                              *)
(***************************************************************************)
is_ascii_alphabetic(c) == c \in LowerCase \cup UpperCase
is_ascii_alphanumeric(c) == is_ascii_alphabetic(c) \/ c \in Digits

\* str::split(sep): the pieces between the separators, empty pieces kept
RECURSIVE split_loop(_, _, _)
split_loop(text, sep, piece) ==
    IF text = <<>> THEN <<piece>>
    ELSE IF Head(text) \in sep
         THEN <<piece>> \o split_loop(Tail(text), sep, <<>>)
         ELSE split_loop(Tail(text), sep, Append(piece, Head(text)))

split(text, sep) == split_loop(text, sep, <<>>)

\* str::split_whitespace: the non-empty pieces between whitespace
split_whitespace(text) ==
    SelectSeq(split(text, Whitespace), LAMBDA piece : piece # <<>>)

token_looks_like_domain(token_) ==
    LET token == trim_matches(token_,
                     {c \in Chars : ~is_ascii_alphanumeric(c) /\ c # "." /\ c # "-"})
        parts == split(token, {"."})
        n     == Len(parts)
    IN  IF n < 2 \/ \E k \in 1..n : parts[k] = <<>> THEN FALSE
        ELSE LET tld    == parts[n]
                 domain == parts[n - 1]
             IN  IF ~(Len(tld) >= 2 /\ Len(tld) <= 6)
                    \/ ~(\A k \in 1..Len(tld) : is_ascii_alphabetic(tld[k]))
                 THEN FALSE
                 ELSE IF Len(domain) < 2
                         \/ ~(\E k \in 1..Len(domain) : is_ascii_alphabetic(domain[k]))
                 THEN FALSE
                 ELSE TRUE

SchemePrefixes == {<<"h", "t", "t", "p", ":", "/", "/">>,
                   <<"h", "t", "t", "p", "s", ":", "/", "/">>,
                   <<"w", "w", "w", ".">>}
TldSubstrings == {<<".", "c", "o", "m">>,
                  <<".", "n", "e", "t">>,
                  <<".", "o", "r", "g">>,
                  <<".", "c", "o">>,
                  <<".", "i", "o">>,
                  <<".", "m", "e">>,
                  <<".", "t", "v">>,
                  <<".", "a", "p", "p">>}

text_looks_url_like(text) ==
    LET lower == to_lowercase(text)
        tokens == split_whitespace(lower)
    IN  IF \E pre \in SchemePrefixes : contains(lower, pre) THEN TRUE
        ELSE IF \E tld \in TldSubstrings : contains(lower, tld) THEN TRUE
        ELSE \E k \in 1..Len(tokens) : token_looks_like_domain(tokens[k])

(***************************************************************************)
(* Segment stabilizer: one iteration of the loop over frame_results        *)
(***************************************************************************)
similarity_threshold_of(cl) ==
    IF cl.merge_similar THEN clamp_f64(cl.similarity_threshold, 80, 98)
    ELSE 100

\* is_valid without the test of the key
is_valid_any_key(confidence, key, min_conf) ==
    confidence >= clamp_f64(min_conf, 0, 100)

\* confidence >= min_confidence && !key.is_empty()
is_valid(confidence, key, min_conf) ==
    confidence >= clamp_f64(min_conf, 0, 100) /\ key # <<>>

SegmentCandidate(key, display_text, confidence) ==
    [key |-> key, text |-> display_text, confidence |-> confidence]

\* open_segment with an empty list of candidates
open_segment_no_candidate(frame, key, display_text) ==
    [start_time |-> frame.time_ms,
     last_seen_time |-> frame.time_ms,
     last_seen_frame_index |-> frame.frame_index,
     baseline_key |-> key,
     baseline_confidence |-> frame.confidence,
     candidates |-> <<>>]

\* the SubtitleSegment opened on `frame`
open_segment(frame, key, display_text) ==
    [start_time |-> frame.time_ms,
     last_seen_time |-> frame.time_ms,
     last_seen_frame_index |-> frame.frame_index,
     baseline_key |-> key,
     baseline_confidence |-> frame.confidence,
     candidates |-> <<SegmentCandidate(key, display_text, frame.confidence)>>]

\* similar_to_baseline applying the metric whatever merge_similar is
similar_to_baseline_by_metric(seg, key, cl) ==
    texts_are_similar(seg.baseline_key, key, similarity_threshold_of(cl))

\* similar_to_baseline judging every key similar
similar_to_baseline_always(seg, key, cl) == TRUE

similar_to_baseline(seg, key, cl) ==
    IF cl.merge_similar
    THEN texts_are_similar(seg.baseline_key, key, similarity_threshold_of(cl))
    ELSE seg.baseline_key = key

\* extend_segment without the promotion of the baseline
extend_segment_keep_baseline(seg, frame, key, display_text) ==
    [seg EXCEPT
        !.last_seen_time = frame.time_ms,
        !.last_seen_frame_index = frame.frame_index,
        !.candidates = Append(@, SegmentCandidate(key, display_text,
                                                  frame.confidence))]

\* the similar branch: extend, and promote the baseline on higher confidence
extend_segment(seg, frame, key, display_text) ==
    LET seg1 == [seg EXCEPT
                   !.last_seen_time = frame.time_ms,
                   !.last_seen_frame_index = frame.frame_index,
                   !.candidates = Append(@, SegmentCandidate(key, display_text,
                                                             frame.confidence))]
    IN  IF frame.confidence > seg.baseline_confidence
        THEN [seg1 EXCEPT !.baseline_key = key,
                          !.baseline_confidence = frame.confidence]
        ELSE seg1

\* the lookahead over frame_results.get(idx + 1), .get(idx + 2); idx 0-based
LookaheadOffsets == {1, 2}

\* is_blip without the validity test of the lookahead observation
is_blip_any_confidence(frames, idx, seg, min_conf, cl) ==
    \E lookahead_offset \in LookaheadOffsets :
        /\ idx + lookahead_offset < Len(frames)
        /\ LET next_frame == frames[idx + lookahead_offset + 1]
               next_display_text == collapse_whitespace(next_frame.text)
               next_key == normalize_text_for_compare(next_display_text)
           IN  similar_to_baseline(seg, next_key, cl)

\* is_blip looking at the next observation only
is_blip_next_only(frames, idx, seg, min_conf, cl) ==
    /\ idx + 1 < Len(frames)
    /\ LET next_frame == frames[idx + 2]
           next_display_text == collapse_whitespace(next_frame.text)
           next_key == normalize_text_for_compare(next_display_text)
       IN  /\ is_valid(next_frame.confidence, next_key, min_conf)
           /\ similar_to_baseline(seg, next_key, cl)

is_blip(frames, idx, seg, min_conf, cl) ==
    \E lookahead_offset \in LookaheadOffsets :
        /\ idx + lookahead_offset < Len(frames)
        /\ LET next_frame == frames[idx + lookahead_offset + 1]
               next_display_text == collapse_whitespace(next_frame.text)
               next_key == normalize_text_for_compare(next_display_text)
           IN  /\ is_valid(next_frame.confidence, next_key, min_conf)
               /\ similar_to_baseline(seg, next_key, cl)

absorb_blip(seg, frame) ==
    [seg EXCEPT !.last_seen_time = frame.time_ms,
                !.last_seen_frame_index = frame.frame_index]

\* gap_exceeded with >= in place of >
gap_exceeded_inclusive(time_ms, last_seen_time, max_gap_ms) ==
    saturating_sub(time_ms, last_seen_time) >= max_gap_ms

\* gap_exceeded tolerating twice max_gap_ms
gap_exceeded_twice(time_ms, last_seen_time, max_gap_ms) ==
    saturating_sub(time_ms, last_seen_time) > 2 * max_gap_ms

\* let gap = frame.time_ms.saturating_sub(seg.last_seen_time); gap > max_gap_ms
gap_exceeded(time_ms, last_seen_time, max_gap_ms) ==
    saturating_sub(time_ms, last_seen_time) > max_gap_ms

\* the body of the loop for frame idx: the new (segments, current) and the
\* branch taken
stabilize_step(frames, idx, segs, cur, min_conf, cl) ==
    LET frame == frames[idx + 1]
        display_text == collapse_whitespace(frame.text)
        key == normalize_text_for_compare(display_text)
        max_gap_ms == cl.max_gap_ms
    IN  IF ~is_valid(frame.confidence, key, min_conf)
        THEN IF IsSome(cur)
                /\ gap_exceeded(frame.time_ms, Unwrap(cur).last_seen_time, max_gap_ms)
             THEN [segments |-> Append(segs, Unwrap(cur)), current |-> None,
                   kind |-> "invalid_close"]
             ELSE [segments |-> segs, current |-> cur,
                   kind |-> IF IsSome(cur) THEN "invalid_keep" ELSE "invalid_idle"]
        ELSE IF IsSome(cur)
        THEN LET seg == Unwrap(cur)
             IN  IF gap_exceeded(frame.time_ms, seg.last_seen_time, max_gap_ms)
                 THEN [segments |-> Append(segs, seg),
                       current |-> Some(open_segment(frame, key, display_text)),
                       kind |-> "gap_reopen"]
                 ELSE IF similar_to_baseline(seg, key, cl)
                 THEN [segments |-> segs,
                       current |-> Some(extend_segment(seg, frame, key, display_text)),
                       kind |-> "extend"]
                 ELSE IF is_blip(frames, idx, seg, min_conf, cl)
                 THEN [segments |-> segs,
                       current |-> Some(absorb_blip(seg, frame)),
                       kind |-> "blip"]
                 ELSE [segments |-> Append(segs, seg),
                       current |-> Some(open_segment(frame, key, display_text)),
                       kind |-> "dissimilar_reopen"]
        ELSE [segments |-> segs,
              current |-> Some(open_segment(frame, key, display_text)),
              kind |-> "open"]

(***************************************************************************)
(* Entries, URL filter, adjacent merge                                     *)
(***************************************************************************)
\* format!("sub-{}", n)
sub_id(n) == <<"sub-", n>>

\* String::len() is the UTF-8 byte length; every char of the model is ASCII
byte_len(text) == Len(text)

segment_entry(seg, selected, n, frame_step_ms, fps_) ==
    [id |-> sub_id(n),
     text |-> selected[1],
     start_time |-> seg.start_time,
     end_time |-> segment_end_time_ms(seg.start_time, seg.last_seen_time,
                                      seg.last_seen_frame_index,
                                      frame_step_ms, fps_),
     confidence |-> selected[2]]

\* the loop over the segments; the set of the lists it can build, one for
\* each iteration order of each segment's HashMap
RECURSIVE build_entries(_, _, _, _)
build_entries(segs, acc, frame_step_ms, fps_) ==
    IF segs = <<>> THEN {acc}
    ELSE UNION {
           IF selected = None
           THEN build_entries(Tail(segs), acc, frame_step_ms, fps_)
           ELSE build_entries(Tail(segs),
                    Append(acc, segment_entry(Head(segs), Unwrap(selected),
                                              Len(acc) + 1, frame_step_ms, fps_)),
                    frame_step_ms, fps_)
           : selected \in SelectOutcomes(Head(segs).candidates) }

\* the retain of the URL filter keeping every entry
retain_everything(subs) == subs

\* subtitles.retain(|entry| !text_looks_url_like(&entry.text))
retain_not_url_like(subs) ==
    SelectSeq(subs, LAMBDA e : ~text_looks_url_like(e.text))

\* merge_condition with the gap measured from the start of `prev`
merge_condition_from_start(prev, sub, cl) ==
    LET gap == saturating_sub(sub.start_time, prev.start_time)
        prev_key == normalize_text_for_compare(prev.text)
        sub_key  == normalize_text_for_compare(sub.text)
        prev_dur == saturating_sub(prev.end_time, prev.start_time)
        sub_dur  == saturating_sub(sub.end_time, sub.start_time)
        similar_strict == texts_are_similar(prev_key, sub_key,
                                            similarity_threshold_of(cl))
        similar_short  == texts_are_similar(prev_key, sub_key, 80)
        is_short == prev_dur < cl.min_cue_duration_ms
                      \/ sub_dur < cl.min_cue_duration_ms
    IN  gap <= cl.max_gap_ms /\ (similar_strict \/ (is_short /\ similar_short))

\* merge_condition without the rule for short cues
merge_condition_strict_only(prev, sub, cl) ==
    LET gap == saturating_sub(sub.start_time, prev.end_time)
        prev_key == normalize_text_for_compare(prev.text)
        sub_key  == normalize_text_for_compare(sub.text)
        similar_strict == texts_are_similar(prev_key, sub_key,
                                            similarity_threshold_of(cl))
    IN  gap <= cl.max_gap_ms /\ similar_strict

\* whether `sub` is merged into `prev`, the last accumulated entry
merge_condition(prev, sub, cl) ==
    LET gap == saturating_sub(sub.start_time, prev.end_time)
        prev_key == normalize_text_for_compare(prev.text)
        sub_key  == normalize_text_for_compare(sub.text)
        prev_dur == saturating_sub(prev.end_time, prev.start_time)
        sub_dur  == saturating_sub(sub.end_time, sub.start_time)
        similar_strict == texts_are_similar(prev_key, sub_key,
                                            similarity_threshold_of(cl))
        similar_short  == texts_are_similar(prev_key, sub_key, 80)
        is_short == prev_dur < cl.min_cue_duration_ms
                      \/ sub_dur < cl.min_cue_duration_ms
    IN  gap <= cl.max_gap_ms /\ (similar_strict \/ (is_short /\ similar_short))

\* merge_into averaging the two confidences
merge_into_mean_confidence(prev, sub) ==
    [prev EXCEPT
        !.end_time = Max2(prev.end_time, sub.end_time),
        !.text = IF sub.confidence > prev.confidence
                    \/ (sub.confidence = prev.confidence
                        /\ byte_len(sub.text) > byte_len(prev.text))
                 THEN sub.text ELSE prev.text,
        !.confidence = (prev.confidence + sub.confidence) \div 2]

\* merge_into always taking the text of `sub`
merge_into_latest_text(prev, sub) ==
    [prev EXCEPT
        !.end_time = Max2(prev.end_time, sub.end_time),
        !.text = sub.text,
        !.confidence = Max2(prev.confidence, sub.confidence)]

\* the body of the merge: end_time, text and confidence of `prev`
merge_into(prev, sub) ==
    [prev EXCEPT
        !.end_time = Max2(prev.end_time, sub.end_time),
        !.text = IF sub.confidence > prev.confidence
                    \/ (sub.confidence = prev.confidence
                        /\ byte_len(sub.text) > byte_len(prev.text))
                 THEN sub.text ELSE prev.text,
        !.confidence = Max2(prev.confidence, sub.confidence)]

RECURSIVE merge_loop(_, _, _)
merge_loop(subs, acc, cl) ==
    IF subs = <<>> THEN acc
    ELSE LET sub == Head(subs)
         IN  IF acc # <<>> /\ merge_condition(acc[Len(acc)], sub, cl)
             THEN merge_loop(Tail(subs),
                             [acc EXCEPT ![Len(acc)] = merge_into(@, sub)],
                             cl)
             ELSE merge_loop(Tail(subs), Append(acc, sub), cl)

renumber(subs) == [k \in 1..Len(subs) |-> [subs[k] EXCEPT !.id = sub_id(k)]]

\* the adjacent-merge pass, with its guard
merge_pass(subs, cl) ==
    IF cl.merge_similar /\ Len(subs) > 1
    THEN renumber(merge_loop(subs, <<>>, cl))
    ELSE subs

cleanup_entries(raw, cl) ==
    merge_pass(IF cl.filter_url_like THEN retain_not_url_like(raw) ELSE raw, cl)

(***************************************************************************)
(* Inputs                                                                  *)
(***************************************************************************)
\* the observations a frame list is drawn from:
\* <<text, confidence, time_ms - time_ms of the frame before>>
\* (gaps of 1 are within max_gap_ms, gaps of 3 beyond it)
FramePool ==
    { << <<"a", "b">>, 95, 1 >>,
      << <<"a", "b">>, 95, 3 >>,
      << <<" ", "A", "b", ".">>, 90, 1 >>,     \* key "ab", shown as "Ab."
      << <<"x", "y">>, 97, 1 >>,               \* two characters away from "ab"
      << <<"a", "y">>, 95, 1 >>,               \* one away from "ab" and "xy"
      << <<"a", "y">>, 95, 3 >>,
      << <<"a", "b">>, 40, 1 >>,               \* below min_confidence
      << <<".">>, 95, 3 >>,                    \* empty normalized key
      << <<"a", "b", ".", "x", "y">>, 95, 1 >> \* a domain-shaped token
    }
\* what the first frame is drawn from: its gap is not used
FirstFramePool == {ob \in FramePool : \A other \in FramePool :
                      (other[1] = ob[1] /\ other[2] = ob[2]) => other[3] >= ob[3]}

\* time_ms of the first frame: early, and just below u64::MAX
StartTimes == {0, U64_MAX - 1}
FpsPool == {0, 500}
MinConfidencePool == {50}

CleanupPool ==
    { [merge_similar |-> TRUE, similarity_threshold |-> 92, max_gap_ms |-> 2,
       min_cue_duration_ms |-> 2, filter_url_like |-> TRUE],
      [merge_similar |-> TRUE, similarity_threshold |-> 50, max_gap_ms |-> 2,
       min_cue_duration_ms |-> 0, filter_url_like |-> FALSE],
      [merge_similar |-> FALSE, similarity_threshold |-> 92, max_gap_ms |-> 2,
       min_cue_duration_ms |-> 2, filter_url_like |-> TRUE] }

RECURSIVE TimeOf(_, _, _)
TimeOf(t0, obs, k) == IF k = 1 THEN t0 ELSE TimeOf(t0, obs, k - 1) + obs[k][3]

MakeFrames(t0, obs) ==
    [k \in 1..Len(obs) |-> [frame_index |-> k - 1,
                            time_ms |-> TimeOf(t0, obs, k),
                            text |-> obs[k][1],
                            confidence |-> obs[k][2]]]

(***************************************************************************)
(* generate_subtitles_core                                                 *)
(***************************************************************************)
FpsError == "FPS must be greater than 0"

\* on_progress is invoked when i % 100 == 0
ProgressEvery == 100

PipeInit ==
    /\ frame_results = <<>>
    /\ fps = 0
    /\ min_confidence = 0
    /\ cleanup = CHOOSE cl \in CleanupPool : TRUE
    /\ pc = "idle"
    /\ i = 0
    /\ segments = <<>>
    /\ current = None
    /\ subtitles = <<>>
    /\ subtitles2 = <<>>
    /\ raw_subtitles = <<>>
    /\ on_progress_calls = <<>>
    /\ via_command = FALSE
    /\ events = <<>>
    /\ result = "none"
    /\ last = [kind |-> "none", opened |-> <<>>, absorbed |-> {}]

SimIdle ==
    /\ sim_a = <<>> /\ sim_b = <<>> /\ sim_threshold = 0
    /\ sim_pc = "off" /\ sim_ab = FALSE /\ sim_ba = FALSE

\* Default for OcrSubtitleCleanupOptions
DefaultCleanup ==
    [merge_similar |-> TRUE, similarity_threshold |-> 92, max_gap_ms |-> 250,
     min_cue_duration_ms |-> 500, filter_url_like |-> TRUE]

\* cleanup.unwrap_or_default()
unwrap_or_default(cl) == IF cl = None THEN DefaultCleanup ELSE Unwrap(cl)

\* an "ocr-progress" event of the phase "generating"
generating_event(current_, total) ==
    [phase |-> "generating", current |-> current_, total |-> total]

\* the on_progress closure of the command
emit_progress(evs, through_command, current_, total) ==
    IF through_command THEN Append(evs, generating_event(current_, total))
    ELSE evs

\* the call, direct or through generate_subtitles_from_ocr: arguments, the
\* fps check of the command and of the core, the start event, the set-up
\* before the loop
Call ==
    /\ pc = "idle"
    /\ \E f \in FpsPool, n \in 0..MaxFrames, t0 \in StartTimes, through \in BOOLEAN :
         /\ (f <= 0 => n <= 1)
         /\ (t0 # 0 => n <= 2)
         /\ (through => n <= 2 /\ t0 = 0)
         /\ via_command' = through
         /\ events' = IF through /\ f > 0 THEN <<generating_event(0, n)>> ELSE <<>>
         /\ IF through
            THEN \E cl \in {None} \cup {Some(c) : c \in CleanupPool} :
                    cleanup' = unwrap_or_default(cl)
            ELSE cleanup' \in CleanupPool
         \* the unfiltered configuration is exercised on lists one frame shorter
         /\ (~cleanup'.filter_url_like => n < MaxFrames)
         /\ \E obs \in [1..n -> FramePool] :
              /\ n >= 1 => obs[1] \in FirstFramePool
              /\ LET frames == MakeFrames(t0, obs)
                 IN  /\ n >= 1 => frames[n].time_ms <= U64_MAX
                     /\ frame_results' = frames
         /\ fps' = f
         /\ IF f <= 0
            THEN /\ result' = FpsError
                 /\ pc' = "done"
            ELSE /\ result' = "none"
                 /\ pc' = "loop"
    /\ min_confidence' \in MinConfidencePool
    /\ UNCHANGED <<i, segments, current, subtitles, subtitles2, raw_subtitles,
                   on_progress_calls, last, sim_vars, ocr_vars, fn_vars>>

\* the branches of the loop body that build a new SubtitleSegment; `last`
\* keeps the branch taken, the time_ms of every observation a segment was
\* opened on and the frame_index of every observation absorbed as a blip
OpeningKinds == {"open", "gap_reopen", "dissimilar_reopen"}

\* one iteration of `for (i, frame) in frame_results.iter().enumerate()`
ProcessFrame ==
    /\ pc = "loop"
    /\ i < Len(frame_results)
    /\ LET r == stabilize_step(frame_results, i, segments, current,
                               min_confidence, cleanup)
       IN  /\ segments' = r.segments
           /\ current' = r.current
           /\ last' = [kind |-> r.kind,
                       opened |-> IF r.kind \in OpeningKinds
                                  THEN Append(last.opened, frame_results[i + 1].time_ms)
                                  ELSE last.opened,
                       absorbed |-> IF r.kind = "blip"
                                    THEN last.absorbed
                                           \cup {frame_results[i + 1].frame_index}
                                    ELSE last.absorbed]
    /\ IF i % ProgressEvery = 0
       THEN /\ on_progress_calls' =
                  Append(on_progress_calls, <<i, Len(frame_results)>>)
            /\ events' = emit_progress(events, via_command, i, Len(frame_results))
       ELSE UNCHANGED <<on_progress_calls, events>>
    /\ i' = i + 1
    /\ UNCHANGED <<frame_results, fps, min_confidence, cleanup, pc, subtitles,
                   subtitles2, raw_subtitles, via_command, result, sim_vars,
                   ocr_vars, fn_vars>>

\* the end of the input leaving the open segment out
close_open_dropped(segs, cur) == segs

\* if let Some(seg) = current.take() { segments.push(seg); }
close_open(segs, cur) ==
    IF IsSome(cur) THEN Append(segs, Unwrap(cur)) ELSE segs

\* after the loop: close the open segment, build the entries, filter, merge,
\* return.  subtitles2 is what a second call with the same arguments returns:
\* its stabilizer pass is the same function of the arguments, its HashMaps
\* are fresh.
Finish ==
    /\ pc = "loop"
    /\ i = Len(frame_results)
    /\ LET segs == close_open(segments, current)
           step == infer_frame_step_ms(frame_results)
       IN  /\ segments' = segs
           /\ current' = None
           /\ \E raw \in build_entries(segs, <<>>, step, fps),
                 raw2 \in build_entries(segs, <<>>, step, fps) :
                /\ raw_subtitles' = raw
                /\ subtitles' = cleanup_entries(raw, cleanup)
                /\ subtitles2' = cleanup_entries(raw2, cleanup)
    /\ events' = emit_progress(events, via_command, Len(frame_results),
                               Len(frame_results))
    /\ result' = "ok"
    /\ pc' = "done"
    /\ last' = [kind |-> "finish", opened |-> last.opened,
                absorbed |-> last.absorbed]
    /\ UNCHANGED <<frame_results, fps, min_confidence, cleanup, i,
                   on_progress_calls, via_command, sim_vars, ocr_vars, fn_vars>>

Next == Call \/ ProcessFrame \/ Finish


(***************************************************************************)
(* perform_ocr: the parallel frame OCR scheduler                           *)
(*                                                                         *)
(* The chunks are the items of a rayon parallel iterator collected into a  *)
(* Result: the items run in any interleaving, the first Err recorded is    *)
(* the one returned, and once an Err is recorded an item that has not      *)
(* started may be dropped instead of run.  A panicking worker and a        *)
(* poisoned registry lock are outside the model.                           *)
(***************************************************************************)
FileId == "file-1"
CancelledError == "OCR cancelled"
EngineError == "Failed to create OCR engine"

OcrFpsPool == {0, 500}

NoResult == [status |-> "none", error |-> "", list |-> <<>>]
OkResult(list) == [status |-> "ok", error |-> "", list |-> list]
ErrResult(e) == [status |-> "err", error |-> e, list |-> <<>>]

\* guard.insert(file_id, pid)
registry_insert(reg, id, pid) ==
    [k \in DOMAIN reg \cup {id} |-> IF k = id THEN pid ELSE reg[k]]
\* guard.remove(&file_id)
registry_remove(reg, id) == [k \in DOMAIN reg \ {id} |-> reg[k]]
\* !guard.contains_key(&file_id)
\* is_cancelled when the lock is taken for poisoned: unwrap_or(false)
is_cancelled_never(reg, id) == FALSE

is_cancelled(reg, id) == id \notin DOMAIN reg

\* frame_data.chunks(chunk_size), as sequences of frame_index
\* make_chunks with chunk_size rounded down
make_chunks_floor(total, num_workers) ==
    LET workers == Max2(1, num_workers)
        chunk_size == Max2(1, total \div workers)
        count == CeilDiv(total, chunk_size)
    IN  [c \in 1..count |->
            [k \in 1..Min2(chunk_size, total - (c - 1) * chunk_size) |->
                (c - 1) * chunk_size + k - 1]]

make_chunks(total, num_workers) ==
    LET workers == Max2(1, num_workers)
        chunk_size == (total + workers - 1) \div workers
        count == CeilDiv(total, chunk_size)
    IN  [c \in 1..count |->
            [k \in 1..Min2(chunk_size, total - (c - 1) * chunk_size) |->
                (c - 1) * chunk_size + k - 1]]

\* ((frame_index as f64) * frame_duration_ms).round() as u64
ocr_time_ms(frame_index, fps_) == as_u64(RoundDiv(frame_index * 1000, fps_))

ocr_frame_result(frame_index, fps_) ==
    [frame_index |-> frame_index, time_ms |-> ocr_time_ms(frame_index, fps_)]

\* engines: the engines the worker has constructed; attempts: its calls of
\* create_ocr_engine; error: the Err it returned
NewWorker == [pc |-> "pending", pos |-> 1, worker_results |-> <<>>,
              engines |-> 0, attempts |-> 0, error |-> "", current |-> 0,
              engine |-> 0, used |-> {}]

RECURSIVE flatten(_)
flatten(lists) == IF lists = <<>> THEN <<>> ELSE Head(lists) \o flatten(Tail(lists))

RECURSIVE insert_by_frame_index(_, _)
insert_by_frame_index(r, s) ==
    IF s = <<>> THEN <<r>>
    ELSE IF r.frame_index < Head(s).frame_index THEN <<r>> \o s
    ELSE <<Head(s)>> \o insert_by_frame_index(r, Tail(s))

\* results.sort_by_key(|r| r.frame_index): a stable sort
RECURSIVE sort_by_frame_index(_)
sort_by_frame_index(s) ==
    IF s = <<>> THEN <<>>
    ELSE insert_by_frame_index(s[Len(s)],
                               sort_by_frame_index(SubSeq(s, 1, Len(s) - 1)))

OcrInit ==
    /\ OCR_PROCESS_IDS = <<>>
    /\ ocr_pc = "idle"
    /\ ocr_fps = 0
    /\ frames_dir = [kind |-> "missing", readable |-> FALSE, frames |-> 0]
    /\ models_dir = FALSE
    /\ chunks = <<>>
    /\ worker = <<>>
    /\ frame_outcome = <<>>
    /\ progress_counter = 0
    /\ saved_error = None
    /\ cancel_calls = 0
    /\ extract_pc = "idle"
    /\ ocr_events = <<>>
    /\ ocr_result = NoResult

\* what frames_dir names: nothing, a file, or a directory that read_dir can
\* or cannot read and that holds `frames` files named frame_*.png
FramesDirPool ==
    {[kind |-> k, readable |-> FALSE, frames |-> 0] : k \in {"missing", "file", "dir"}}
      \cup {[kind |-> "dir", readable |-> TRUE, frames |-> n] : n \in 0..MaxOcrFrames}

\* validate_directory_path without its is_dir() check
validate_directory_path_exists_only(path) ==
    IF path.kind = "missing" THEN Some("Directory not found")
    ELSE None

\* validate_directory_path(path)
validate_directory_path(path) ==
    IF path.kind = "missing" THEN Some("Directory not found")
    ELSE IF path.kind # "dir" THEN Some("Not a directory")
    ELSE None

ModelsError == "OCR models not found"
ReadDirError == "Failed to read frames directory"

\* an "ocr-progress" event of the phase "ocr"
ocr_event(current_, total) == [phase |-> "ocr", current |-> current_, total |-> total]

\* perform_ocr up to the start of the parallel section: the checks of the
\* arguments, the registration, the models directory, the frame list, the
\* start event and the chunks
OcrCall ==
    /\ ocr_pc = "idle"
    /\ \E f \in OcrFpsPool, dir \in FramesDirPool, models_found \in BOOLEAN,
          num_workers \in 0..MaxWorkers :
       LET readable == dir.readable
           total == dir.frames
       IN
         /\ ocr_fps' = f
         /\ frames_dir' = dir
         /\ models_dir' = models_found
         /\ IF validate_directory_path(dir) # None
            THEN /\ ocr_result' = ErrResult(Unwrap(validate_directory_path(dir)))
                 /\ ocr_pc' = "returned"
                 /\ UNCHANGED <<OCR_PROCESS_IDS, chunks, worker, frame_outcome,
                                ocr_events>>
            ELSE IF f <= 0
            THEN /\ ocr_result' = ErrResult(FpsError)
                 /\ ocr_pc' = "returned"
                 /\ UNCHANGED <<OCR_PROCESS_IDS, chunks, worker, frame_outcome,
                                ocr_events>>
            ELSE IF ~models_found \/ ~readable
            THEN \* get_ocr_models_dir(&app)? and read_dir(..)?: no cleanup()
                 /\ OCR_PROCESS_IDS' = registry_insert(OCR_PROCESS_IDS, FileId, 0)
                 /\ ocr_result' = ErrResult(IF ~models_found THEN ModelsError
                                            ELSE ReadDirError)
                 /\ ocr_pc' = "returned"
                 /\ UNCHANGED <<chunks, worker, frame_outcome, ocr_events>>
            ELSE IF total = 0
            THEN \* registered, then cleanup() and Ok(Vec::new())
                 /\ OCR_PROCESS_IDS' =
                        registry_remove(registry_insert(OCR_PROCESS_IDS, FileId, 0),
                                        FileId)
                 /\ ocr_result' = OkResult(<<>>)
                 /\ ocr_pc' = "returned"
                 /\ UNCHANGED <<chunks, worker, frame_outcome, ocr_events>>
            ELSE /\ OCR_PROCESS_IDS' = registry_insert(OCR_PROCESS_IDS, FileId, 0)
                 /\ ocr_events' = <<ocr_event(0, total)>>
                 /\ chunks' = make_chunks(total, num_workers)
                 /\ worker' = [c \in 1..Len(chunks') |-> NewWorker]
                 /\ frame_outcome' = [k \in 1..total |-> "pending"]
                 /\ ocr_pc' = "running"
                 /\ UNCHANGED ocr_result
    /\ UNCHANGED <<progress_counter, saved_error, cancel_calls, extract_pc, pipe_vars, sim_vars, fn_vars>>

\* a worker returns Err(e): the collect keeps the first error it is given
worker_fails(c, e) ==
    /\ worker' = [worker EXCEPT ![c].pc = "err", ![c].error = e]
    /\ saved_error' = IF saved_error = None THEN Some(e) ELSE saved_error

\* engine_fails with the Err swallowed: the chunk yields Ok(vec![])
engine_fails_swallowed(c) ==
    /\ worker' = [worker EXCEPT ![c].pc = "ok", ![c].error = EngineError,
                                ![c].attempts = @ + 1]
    /\ saved_error' = saved_error

\* create_ocr_engine(...)? on an Err
engine_fails(c) ==
    /\ worker' = [worker EXCEPT ![c].pc = "err", ![c].error = EngineError,
                                ![c].attempts = @ + 1]
    /\ saved_error' = IF saved_error = None THEN Some(EngineError) ELSE saved_error

\* the cancellation poll before the worker starts its chunk
WorkerStart(c) ==
    /\ ocr_pc = "running"
    /\ worker[c].pc = "pending"
    /\ IF is_cancelled(OCR_PROCESS_IDS, FileId)
       THEN worker_fails(c, CancelledError)
       ELSE /\ worker' = [worker EXCEPT ![c].pc = "engine"]
            /\ UNCHANGED saved_error
    /\ UNCHANGED <<OCR_PROCESS_IDS, ocr_pc, ocr_args, chunks, frame_outcome,
                   progress_counter, cancel_calls, extract_pc, ocr_events, ocr_result,
                   pipe_vars, sim_vars, fn_vars>>

\* an item that has not started is dropped once an Err is recorded
WorkerDropped(c) ==
    /\ ocr_pc = "running"
    /\ worker[c].pc = "pending"
    /\ saved_error # None
    /\ worker' = [worker EXCEPT ![c].pc = "dropped"]
    /\ UNCHANGED <<OCR_PROCESS_IDS, ocr_pc, ocr_args, chunks, frame_outcome,
                   progress_counter, saved_error, cancel_calls, extract_pc, ocr_events,
                   ocr_result, pipe_vars, sim_vars, fn_vars>>

\* one engine handed to every worker instead of an engine built per worker
new_engine_shared(workers) == 1

\* the instance create_ocr_engine builds: a new one on every call, numbered
\* in the order of construction (0 is "no engine")
new_engine(workers) ==
    1 + Cardinality({d \in 1..Len(workers) : workers[d].engine # 0})

\* create_ocr_engine(...)?
WorkerEngine(c) ==
    /\ ocr_pc = "running"
    /\ worker[c].pc = "engine"
    /\ \E created \in BOOLEAN :
         IF created
         THEN /\ worker' = [worker EXCEPT ![c].pc = "loop",
                                          ![c].engines = @ + 1,
                                          ![c].attempts = @ + 1,
                                          ![c].engine = new_engine(worker)]
              /\ UNCHANGED saved_error
         ELSE engine_fails(c)
    /\ UNCHANGED <<OCR_PROCESS_IDS, ocr_pc, ocr_args, chunks, frame_outcome,
                   progress_counter, cancel_calls, extract_pc, ocr_events, ocr_result,
                   pipe_vars, sim_vars, fn_vars>>

\* the head of the loop over the chunk: the per-frame cancellation poll, or
\* Ok(worker_results) when the chunk is exhausted
WorkerPoll(c) ==
    /\ ocr_pc = "running"
    /\ worker[c].pc = "loop"
    /\ IF worker[c].pos > Len(chunks[c])
       THEN /\ worker' = [worker EXCEPT ![c].pc = "ok"]
            /\ UNCHANGED saved_error
       ELSE IF is_cancelled(OCR_PROCESS_IDS, FileId)
       THEN worker_fails(c, CancelledError)
       ELSE /\ worker' = [worker EXCEPT ![c].pc = "frame"]
            /\ UNCHANGED saved_error
    /\ UNCHANGED <<OCR_PROCESS_IDS, ocr_pc, ocr_args, chunks, frame_outcome,
                   progress_counter, cancel_calls, extract_pc, ocr_events, ocr_result,
                   pipe_vars, sim_vars, fn_vars>>

\* fetch_add that leaves the counter as it was
fetch_add_dropped(counter, n) == counter

\* AtomicU32::fetch_add: the new value of the counter (its wrap-around is out
\* of reach, the counter never exceeds the number of frames)
fetch_add(counter, n) == counter + n

\* engine.recognize(&image): reached unless image::open failed; `used` keeps
\* which engine instance was run on which frame
recognize_with(used, engine, frame_index, outcome) ==
    IF outcome = "decode_err" THEN used
    ELSE used \cup {<<engine, frame_index>>}

\* record_frame pushing a result for a failed frame as well
record_frame_always(worker_results, frame_index, outcome, fps_) ==
    Append(worker_results, ocr_frame_result(frame_index, fps_))

\* what one frame leaves in worker_results
record_frame(worker_results, frame_index, outcome, fps_) ==
    IF outcome = "ok"
    THEN Append(worker_results, ocr_frame_result(frame_index, fps_))
    ELSE worker_results

\* WorkerFrame with `continue` taken before the progress update
WorkerFrameSkipsProgress(c) ==
    /\ ocr_pc = "running"
    /\ worker[c].pc = "frame"
    /\ LET frame_index == chunks[c][worker[c].pos]
       IN  \E outcome \in {"ok", "decode_err", "ocr_err"} :
             /\ frame_outcome' = [frame_outcome EXCEPT ![frame_index + 1] = outcome]
             /\ worker' = [worker EXCEPT
                    ![c].worker_results = record_frame(@, frame_index, outcome, ocr_fps),
                    ![c].used = recognize_with(@, worker[c].engine, frame_index, outcome),
                    ![c].pos = @ + 1,
                    ![c].pc = IF outcome = "ok" THEN "emit" ELSE "loop",
                    ![c].current = IF outcome = "ok"
                                   THEN fetch_add(progress_counter, 1) ELSE @]
             /\ progress_counter' = IF outcome = "ok"
                                    THEN fetch_add(progress_counter, 1)
                                    ELSE progress_counter
    /\ UNCHANGED <<OCR_PROCESS_IDS, ocr_pc, ocr_args, chunks, saved_error,
                   cancel_calls, extract_pc, ocr_events, ocr_result, pipe_vars, sim_vars, fn_vars>>

\* image::open, engine.recognize, the push and the update of the shared
\* counter; `current` is the value this worker read
WorkerFrame(c) ==
    /\ ocr_pc = "running"
    /\ worker[c].pc = "frame"
    /\ LET frame_index == chunks[c][worker[c].pos]
       IN  \E outcome \in {"ok", "decode_err", "ocr_err"} :
             /\ frame_outcome' = [frame_outcome EXCEPT ![frame_index + 1] = outcome]
             /\ worker' = [worker EXCEPT
                    ![c].worker_results = record_frame(@, frame_index, outcome, ocr_fps),
                    ![c].used = recognize_with(@, worker[c].engine, frame_index, outcome),
                    ![c].pos = @ + 1,
                    ![c].pc = "emit",
                    ![c].current = fetch_add(progress_counter, 1)]
    /\ progress_counter' = fetch_add(progress_counter, 1)
    /\ UNCHANGED <<OCR_PROCESS_IDS, ocr_pc, ocr_args, chunks, saved_error,
                   cancel_calls, extract_pc, ocr_events, ocr_result, pipe_vars, sim_vars, fn_vars>>

\* app.emit("ocr-progress", ..) with the value read, then the next frame
WorkerEmit(c) ==
    /\ ocr_pc = "running"
    /\ worker[c].pc = "emit"
    /\ ocr_events' = Append(ocr_events,
                            ocr_event(worker[c].current, Len(frame_outcome)))
    /\ worker' = [worker EXCEPT ![c].pc = "loop"]
    /\ UNCHANGED <<OCR_PROCESS_IDS, ocr_pc, ocr_args, chunks, frame_outcome,
                   progress_counter, saved_error, cancel_calls, extract_pc, ocr_result,
                   pipe_vars, sim_vars, fn_vars>>

\* cancel_ocr_operation(file_id)
Cancel ==
    /\ cancel_calls < MaxCancels
    /\ cancel_calls' = cancel_calls + 1
    /\ OCR_PROCESS_IDS' = registry_remove(OCR_PROCESS_IDS, FileId)
    /\ UNCHANGED <<ocr_pc, ocr_args, chunks, worker, frame_outcome, progress_counter,
                   saved_error, extract_pc, ocr_events, ocr_result, pipe_vars,
                   sim_vars, fn_vars>>

\* extract_ocr_frames(file_id) has spawned ffmpeg: guard.insert(file_id, pid),
\* in the same registry and under the same key as perform_ocr (any pid but 0)
ExtractFramesSpawn ==
    /\ extract_pc = "idle"
    /\ extract_pc' = "waiting"
    /\ OCR_PROCESS_IDS' = registry_insert(OCR_PROCESS_IDS, FileId, 1)
    /\ UNCHANGED <<ocr_pc, ocr_args, chunks, worker, frame_outcome, progress_counter,
                   saved_error, cancel_calls, ocr_events, ocr_result, pipe_vars,
                   sim_vars, fn_vars>>

\* ffmpeg is over (exit, error or timeout): guard.remove(&file_id)
ExtractFramesDone ==
    /\ extract_pc = "waiting"
    /\ extract_pc' = "done"
    /\ OCR_PROCESS_IDS' = registry_remove(OCR_PROCESS_IDS, FileId)
    /\ UNCHANGED <<ocr_pc, ocr_args, chunks, worker, frame_outcome, progress_counter,
                   saved_error, cancel_calls, ocr_events, ocr_result, pipe_vars,
                   sim_vars, fn_vars>>

\* what the parallel section hands back
collect_results(workers, error) ==
    IF error # None THEN ErrResult(Unwrap(error))
    ELSE OkResult(sort_by_frame_index(
             flatten([c \in 1..Len(workers) |-> workers[c].worker_results])))

\* the parallel section is over: `??`, then cleanup() and Ok(results)
OcrReturn ==
    /\ ocr_pc = "running"
    /\ \A c \in 1..Len(worker) : worker[c].pc \in {"ok", "err", "dropped"}
    /\ ocr_result' = collect_results(worker, saved_error)
    /\ OCR_PROCESS_IDS' = IF saved_error # None THEN OCR_PROCESS_IDS
                          ELSE registry_remove(OCR_PROCESS_IDS, FileId)
    /\ ocr_events' = IF saved_error # None THEN ocr_events
                     ELSE Append(ocr_events, ocr_event(Len(frame_outcome),
                                                       Len(frame_outcome)))
    /\ ocr_pc' = "returned"
    /\ UNCHANGED <<ocr_args, chunks, worker, frame_outcome, progress_counter,
                   saved_error, cancel_calls, extract_pc, pipe_vars, sim_vars, fn_vars>>

OcrNext ==
    \/ OcrCall
    \/ Cancel
    \/ ExtractFramesSpawn
    \/ ExtractFramesDone
    \/ OcrReturn
    \/ \E c \in 1..Len(worker) : WorkerStart(c)
    \/ \E c \in 1..Len(worker) : WorkerDropped(c)
    \/ \E c \in 1..Len(worker) : WorkerEngine(c)
    \/ \E c \in 1..Len(worker) : WorkerPoll(c)
    \/ \E c \in 1..Len(worker) : WorkerFrame(c)
    \/ \E c \in 1..Len(worker) : WorkerEmit(c)

(***************************************************************************)
(* texts_are_similar on pairs of keys                                      *)
(***************************************************************************)
RECURSIVE StringsUpTo(_)
StringsUpTo(n) ==
    IF n = 0 THEN {<<>>}
    ELSE LET shorter == StringsUpTo(n - 1)
         IN  shorter \cup {Append(w, c) : w \in shorter, c \in {"a", "b"}}

\* a stem that brings a key to the long-text path (6 scalars and more)
LongStem == <<"b", "a", "a", "b", "a">>

\* a longer key with the keys on LongStem as proper substrings, three
\* characters and more apart
LongerStem == LongStem \o <<"a", "b", "b", "a">>

SimKeys ==
    StringsUpTo(MaxKeyLen)
      \cup {LongStem \o w : w \in StringsUpTo(MaxKeyLen)}
      \cup {LongerStem \o w : w \in StringsUpTo(MaxKeyLen)}
SimThresholds == {NaN, 50, 80, 92, 98, 100}

SimInit ==
    /\ sim_a \in SimKeys
    /\ sim_b \in SimKeys
    /\ sim_threshold \in SimThresholds
    /\ sim_pc = "ready"
    /\ sim_ab = FALSE
    /\ sim_ba = FALSE

Compare ==
    /\ sim_pc = "ready"
    /\ sim_ab' = texts_are_similar(sim_a, sim_b, sim_threshold)
    /\ sim_ba' = texts_are_similar(sim_b, sim_a, sim_threshold)
    /\ sim_pc' = "compared"
    /\ UNCHANGED <<sim_a, sim_b, sim_threshold, pipe_vars, ocr_vars, fn_vars>>


(***************************************************************************)
(* select_segment_text on the candidates of one segment                    *)
(***************************************************************************)
MaxCandidates == 3

Text8  == <<"a", "b", "a", "b", "a", "b", "a", "b">>
Text12 == Text8 \o <<"a", "b", "a", "b">>

\* the readings a segment's candidates are drawn from:
\* <<display text, confidence>>; the key is the normalized display text
ReadingPool ==
    { << <<"a", "b">>, 95 >>,
      << <<"A", "b", ".">>, 94 >>,
      << <<"A", "b", ".">>, 95 >>,
      << <<"a", "y">>, 94 >>,
      << <<"a", "y">>, 95 >>,
      << Text8, 95 >>,                 \* length bonus 0.04
      << Text12, 94 >>,                \* length bonus capped at 0.05
      << <<"x", "y">>, 0 >>,           \* confidence 0.0, min_confidence 0.0
      << <<"X", "y", ".">>, 0 >> }

MakeCandidates(readings) ==
    [k \in 1..Len(readings) |->
        SegmentCandidate(normalize_text_for_compare(readings[k][1]),
                         readings[k][1], readings[k][2])]

\* a segment of one frame with the candidates given
SegmentOf(cands) ==
    [start_time |-> 0, last_seen_time |-> 0, last_seen_frame_index |-> 0,
     baseline_key |-> <<>>, baseline_confidence |-> 0, candidates |-> cands]

SelectIdle ==
    /\ select_candidates = <<>>
    /\ select_result = None
    /\ select_entries = <<>>
    /\ select_pc = "idle"

SelectInit ==
    /\ \E n \in 0..MaxCandidates : \E readings \in [1..n -> ReadingPool] :
          select_candidates = MakeCandidates(readings)
    /\ select_result = None
    /\ select_entries = <<>>
    /\ select_pc = "ready"

\* select_segment_text(&seg.candidates) and the entry pushed for the segment
SelectText ==
    /\ select_pc = "ready"
    /\ \E order \in IterationOrders(select_candidates) :
         LET sel == select_segment_text(select_candidates, order)
         IN  /\ select_result' = sel
             /\ select_entries' =
                    IF sel = None THEN <<>>
                    ELSE <<segment_entry(SegmentOf(select_candidates),
                                         Unwrap(sel), 1,
                                         None, 500)>>
    /\ select_pc' = "done"
    /\ UNCHANGED <<select_candidates, pipe_vars, sim_vars, ocr_vars, merge_vars,
                   timing_vars, chunk_vars>>


(***************************************************************************)
(* The adjacent-merge pass, one entry at a time                            *)
(***************************************************************************)
MaxEntries == 3

\* what an entry of the pass is drawn from: <<text, confidence>>
MergeTextPool ==
    { << <<"a", "b">>, 95 >>,
      << <<"A", "b", ".">>, 95 >>,     \* same key, same confidence, longer
      << <<"a", "y">>, 95 >>,          \* same confidence, same length
      << <<"a", "b">>, 90 >>,
      \* six characters, one apart: similar at 0.80, not at 0.92
      << <<"a", "b", "c", "d", "e", "f">>, 95 >>,
      << <<"a", "b", "c", "d", "e", "y">>, 95 >> }

\* start_time - start_time of the entry before, and end_time - start_time
MergeStartGaps == {1, 4}
MergeDurations == {1, 5}

MergeDraws == MergeTextPool \X MergeStartGaps \X MergeDurations

RECURSIVE StartOf(_, _)
StartOf(draws, k) == IF k = 1 THEN 0 ELSE StartOf(draws, k - 1) + draws[k][2]

\* the entries built from the segments: numbered, in the order of their starts
MakeEntries(draws) ==
    [k \in 1..Len(draws) |->
        [id |-> sub_id(k),
         text |-> draws[k][1][1],
         start_time |-> StartOf(draws, k),
         end_time |-> StartOf(draws, k) + draws[k][3],
         confidence |-> draws[k][1][2]]]

MergeIdle ==
    /\ merge_subtitles = <<>>
    /\ merge_cleanup = DefaultCleanup
    /\ merge_pos = 0
    /\ merged = <<>>
    /\ merge_pc = "idle"

\* `if cleanup.merge_similar && subtitles.len() > 1` holds and `merged` is new
MergeInit ==
    /\ \E n \in 2..MaxEntries : \E draws \in [1..n -> MergeDraws] :
          merge_subtitles = MakeEntries(draws)
    /\ merge_cleanup \in {cl \in CleanupPool : cl.merge_similar}
    /\ merge_pos = 0
    /\ merged = <<>>
    /\ merge_pc = "loop"

\* one iteration of `for sub in subtitles`
MergeStep ==
    /\ merge_pc = "loop"
    /\ merge_pos < Len(merge_subtitles)
    /\ LET sub == merge_subtitles[merge_pos + 1]
       IN  merged' = IF merged # <<>>
                        /\ merge_condition(merged[Len(merged)], sub, merge_cleanup)
                     THEN [merged EXCEPT ![Len(merged)] = merge_into(@, sub)]
                     ELSE Append(merged, sub)
    /\ merge_pos' = merge_pos + 1
    /\ UNCHANGED <<merge_subtitles, merge_cleanup, merge_pc, pipe_vars, sim_vars,
                   ocr_vars, select_vars, timing_vars, chunk_vars>>

\* the renumbering, and `subtitles = merged`
MergeRenumber ==
    /\ merge_pc = "loop"
    /\ merge_pos = Len(merge_subtitles)
    /\ merged' = renumber(merged)
    /\ merge_pc' = "done"
    /\ UNCHANGED <<merge_subtitles, merge_cleanup, merge_pos, pipe_vars, sim_vars,
                   ocr_vars, select_vars, timing_vars, chunk_vars>>

MergeNext == MergeStep \/ MergeRenumber


(***************************************************************************)
(* The end time of a segment                                               *)
(***************************************************************************)
MaxTimedFrames == 4

\* time_ms of a frame minus time_ms of the frame before it: frames of one
\* instant, of consecutive instants, and further apart
TimeGaps == {0, 1, 3}
TimingFpsPool == {250, 500}

\* a segment that starts on frame `first` and was last_seen seen on frame `last_seen`
\* (positions in frame_results, from 1)
SegmentOver(frames, first, last_seen) ==
    [start_time |-> frames[first].time_ms,
     last_seen_time |-> frames[last_seen].time_ms,
     last_seen_frame_index |-> frames[last_seen].frame_index]

TimingIdle ==
    /\ timing_frames = <<>>
    /\ timing_fps = 0
    /\ timing_seg = [start_time |-> 0, last_seen_time |-> 0,
                     last_seen_frame_index |-> 0]
    /\ timing_step = None
    /\ timing_end = 0
    /\ timing_pc = "idle"

TimingInit ==
    /\ \E n \in 1..MaxTimedFrames, t0 \in StartTimes :
       \E gaps \in [1..n -> TimeGaps] :
          LET frames == MakeFrames(t0, [k \in 1..n |-> << <<"a", "b">>, 95, gaps[k] >>])
          IN  /\ gaps[1] = 0
              /\ frames[n].time_ms <= U64_MAX
              /\ timing_frames = frames
              /\ \E first \in 1..n, last_seen \in 1..n :
                    /\ first <= last_seen
                    /\ timing_seg = SegmentOver(frames, first, last_seen)
    /\ timing_fps \in TimingFpsPool
    /\ timing_step = None
    /\ timing_end = 0
    /\ timing_pc = "infer"

\* let inferred_frame_step_ms = infer_frame_step_ms(frame_results)
InferStep ==
    /\ timing_pc = "infer"
    /\ timing_step' = infer_frame_step_ms(timing_frames)
    /\ timing_pc' = "end"
    /\ UNCHANGED <<timing_frames, timing_fps, timing_seg, timing_end, pipe_vars,
                   sim_vars, ocr_vars, merge_vars, select_vars, chunk_vars>>

\* let end_time = segment_end_time_ms(..)
SegmentEnd ==
    /\ timing_pc = "end"
    /\ timing_end' = segment_end_time_ms(timing_seg.start_time,
                                         timing_seg.last_seen_time,
                                         timing_seg.last_seen_frame_index,
                                         timing_step, timing_fps)
    /\ timing_pc' = "done"
    /\ UNCHANGED <<timing_frames, timing_fps, timing_seg, timing_step, pipe_vars,
                   sim_vars, ocr_vars, merge_vars, select_vars, chunk_vars>>

TimingNext == InferStep \/ SegmentEnd


(***************************************************************************)
(* Specifications                                                          *)
(***************************************************************************)
\* the units below are at rest
(***************************************************************************)
(* The chunks of perform_ocr and its thread pool                           *)
(***************************************************************************)
MaxChunkFrames == 9
MaxChunkWorkers == 5

ChunkIdle ==
    /\ chunk_total = 0
    /\ chunk_workers = 0
    /\ chunk_list = <<>>
    /\ chunk_threads = 0
    /\ chunk_pc = "idle"

\* past `if total_frames == 0 { return }`: a frame list that is not empty
ChunkInit ==
    /\ chunk_total \in 1..MaxChunkFrames
    /\ chunk_workers \in 0..MaxChunkWorkers
    /\ chunk_list = <<>>
    /\ chunk_threads = 0
    /\ chunk_pc = "split"

\* let chunks = frame_data.chunks(chunk_size)...collect()
SplitFrames ==
    /\ chunk_pc = "split"
    /\ chunk_list' = make_chunks(chunk_total, chunk_workers)
    /\ chunk_pc' = "pool"
    /\ UNCHANGED <<chunk_total, chunk_workers, chunk_threads, pipe_vars, sim_vars,
                   ocr_vars, merge_vars, select_vars, timing_vars>>

\* rayon::ThreadPoolBuilder::new().num_threads(chunks.len()).build()
BuildPool ==
    /\ chunk_pc = "pool"
    /\ chunk_threads' = Len(chunk_list)
    /\ chunk_pc' = "done"
    /\ UNCHANGED <<chunk_total, chunk_workers, chunk_list, pipe_vars, sim_vars,
                   ocr_vars, merge_vars, select_vars, timing_vars>>

ChunkNext == SplitFrames \/ BuildPool

FnIdle == MergeIdle /\ SelectIdle /\ TimingIdle /\ ChunkIdle

Init == PipeInit /\ SimIdle /\ OcrInit /\ FnIdle

Spec == Init /\ [][Next]_vars

SpecOcr == Init /\ [][OcrNext]_vars

\* the entry of one of the three operations that take an fps argument: a call
\* of generate_subtitles_core, of generate_subtitles_from_ocr or of perform_ocr
\* up to its first return or its first unit of work.  The operations share no
\* state, so each behaviour follows one call.
ArgsNext ==
    \/ (ocr_pc = "idle" /\ Call)
    \/ (pc = "idle" /\ OcrCall)

SpecArgs == Init /\ [][ArgsNext]_vars

InitSim == PipeInit /\ SimInit /\ OcrInit /\ FnIdle

SpecSim == InitSim /\ [][Compare]_vars

InitMerge ==
    PipeInit /\ SimIdle /\ OcrInit /\ MergeInit /\ SelectIdle /\ TimingIdle /\ ChunkIdle

InitSelect ==
    PipeInit /\ SimIdle /\ OcrInit /\ MergeIdle /\ SelectInit /\ TimingIdle /\ ChunkIdle

SpecSelect == InitSelect /\ [][SelectText]_vars

InitTiming ==
    PipeInit /\ SimIdle /\ OcrInit /\ MergeIdle /\ SelectIdle /\ TimingInit /\ ChunkIdle

SpecTiming == InitTiming /\ [][TimingNext]_vars

InitChunks ==
    PipeInit /\ SimIdle /\ OcrInit /\ MergeIdle /\ SelectIdle /\ TimingIdle /\ ChunkInit

SpecChunks == InitChunks /\ [][ChunkNext]_vars

SpecMerge == InitMerge /\ [][MergeNext]_vars

(***************************************************************************)
(* Claims                                                                  *)
(***************************************************************************)
Returned == pc = "done" /\ result = "ok"

\* C1: every entry returned by generate_subtitles_core has
\* end_time > start_time.
C1_EndAfterStart ==
    Returned =>
        \A k \in 1..Len(subtitles) : subtitles[k].end_time > subtitles[k].start_time

StrictlyIncreasingTimes(frames) ==
    \A k \in 1..(Len(frames) - 1) :
        /\ frames[k].time_ms < frames[k + 1].time_ms
        /\ frames[k].frame_index < frames[k + 1].frame_index

\* C2: for frames with strictly increasing time_ms the returned entries are
\* ordered by start_time and consecutive entries do not overlap.
C2_OrderedNonOverlapping ==
    (Returned /\ StrictlyIncreasingTimes(frame_results)) =>
        \A k \in 1..(Len(subtitles) - 1) :
            /\ subtitles[k].start_time <= subtitles[k + 1].start_time
            /\ subtitles[k].end_time <= subtitles[k + 1].start_time

\* similarity as the stabilizer is configured: the metric at the clamped
\* threshold, exact equality when merge_similar is off
ConfiguredSimilar(a_key, b_key) ==
    IF cleanup.merge_similar
    THEN texts_are_similar(a_key, b_key,
                           clamp_f64(cleanup.similarity_threshold, 80, 98))
    ELSE a_key = b_key

ValidFrame(frame) ==
    /\ frame.confidence >= min_confidence
    /\ normalize_text_for_compare(collapse_whitespace(frame.text)) # <<>>

KeyOfFrame(frame) == normalize_text_for_compare(collapse_whitespace(frame.text))

\* the frame about to be processed is a valid, in-gap observation that is
\* dissimilar to the baseline of the active segment
DissimilarInGap ==
    /\ pc = "loop" /\ i < Len(frame_results) /\ current # None
    /\ LET frame == frame_results[i + 1]
           seg == current[1]
       IN  /\ ValidFrame(frame)
           /\ (frame.time_ms >= seg.last_seen_time
                 => frame.time_ms - seg.last_seen_time <= cleanup.max_gap_ms)
           /\ ~ConfiguredSimilar(seg.baseline_key, KeyOfFrame(frame))

\* one of the next two observations is valid and similar to the baseline
NearFutureMatch ==
    \E k \in {i + 2, i + 3} :
        /\ k <= Len(frame_results)
        /\ ValidFrame(frame_results[k])
        /\ ConfiguredSimilar(current[1].baseline_key, KeyOfFrame(frame_results[k]))

\* C3: a valid in-gap observation dissimilar to the baseline is absorbed as a
\* blip when one of the next two observations is valid and similar to the
\* baseline: no segment is closed, candidates and baseline are unchanged,
\* last_seen_time and last_seen_frame_index become the observation's.
C3_BlipAbsorbed ==
    [][ (DissimilarInGap /\ NearFutureMatch) =>
          /\ segments' = segments
          /\ current' # None
          /\ current'[1].candidates = current[1].candidates
          /\ current'[1].baseline_key = current[1].baseline_key
          /\ current'[1].baseline_confidence = current[1].baseline_confidence
          /\ current'[1].start_time = current[1].start_time
          /\ current'[1].last_seen_time = frame_results[i + 1].time_ms
          /\ current'[1].last_seen_frame_index = frame_results[i + 1].frame_index
      ]_vars

\* a blip was absorbed on the strength of the second lookahead frame alone
C3_Witness ==
    /\ last.kind = "blip"
    /\ pc = "loop"
    /\ i + 1 <= Len(frame_results)
    /\ current # None
    /\ ~(ValidFrame(frame_results[i + 1])
         /\ ConfiguredSimilar(current[1].baseline_key, KeyOfFrame(frame_results[i + 1])))

\* C8: the adjacent-merge pass applied to the list it produced leaves that
\* list unchanged.
C8_MergeIdempotent ==
    Returned => merge_pass(subtitles, cleanup) = subtitles

\* C9: texts_are_similar(a, b, t) = texts_are_similar(b, a, t).
C9_Symmetric == sim_pc = "compared" => sim_ab = sim_ba

\* both orders were compared on the long-text path and judged similar
C9_Witness ==
    /\ sim_pc = "compared"
    /\ sim_ab /\ sim_ba
    /\ sim_a # sim_b
    /\ Len(sim_a) >= 6 /\ Len(sim_b) > Len(sim_a)
    /\ ~contains(sim_b, sim_a)

\* C10: two runs of generate_subtitles_core on the same arguments return
\* identical entry lists.
C10_Deterministic == pc = "done" => subtitles = subtitles2

OcrReturned == ocr_pc = "returned"
Observed(c) == worker[c].error = "OCR cancelled"
EngineFailed(c) == worker[c].error = "Failed to create OCR engine"
IndexSet(list) == {list[k].frame_index : k \in 1..Len(list)}

\* C4 as claimed: if any worker observes the cancellation flag, perform_ocr
\* returns the error 'OCR cancelled'.
C4_CancelReported ==
    (OcrReturned /\ \E c \in 1..Len(worker) : Observed(c)) =>
        (ocr_result.status = "err" /\ ocr_result.error = "OCR cancelled")

\* C4 as amended: while the job's id is absent from the registry no worker
\* starts a further frame or constructs an engine, and if any worker observes
\* the flag perform_ocr returns no list but an error: 'OCR cancelled', or the
\* engine-construction error of a worker whose engine could not be built.
C4_Cancellation ==
    /\ [][ (ocr_pc = "running" /\ FileId \notin DOMAIN OCR_PROCESS_IDS) =>
             /\ \A c \in 1..Len(worker) :
                  /\ worker'[c].pc = "frame" => worker[c].pc = "frame"
                  /\ worker'[c].pc = "engine" => worker[c].pc = "engine"
                  /\ worker[c].pc \in {"pending", "loop"} =>
                       (worker'[c] = worker[c]
                          \/ worker'[c].pc \in {"err", "ok", "dropped"})
         ]_vars
    /\ [](  (OcrReturned /\ \E c \in 1..Len(worker) : Observed(c)) =>
              /\ ocr_result.status = "err"
              /\ ocr_result.list = <<>>
              /\ \/ ocr_result.error = "OCR cancelled"
                 \/ /\ ocr_result.error = "Failed to create OCR engine"
                    /\ \E c \in 1..Len(worker) : EngineFailed(c) )

\* cancelled in the middle of a chunk: a frame was processed, the rest of the
\* chunk was not, and the batch returned the cancellation error
C4_Witness ==
    /\ OcrReturned
    /\ ocr_result.status = "err" /\ ocr_result.error = "OCR cancelled"
    /\ \E c \in 1..Len(worker) :
         /\ Observed(c)
         /\ worker[c].pos > 1
         /\ worker[c].pos <= Len(chunks[c])
         /\ frame_outcome[chunks[c][worker[c].pos] + 1] = "pending"

\* C5: when perform_ocr succeeds the list is strictly increasing in
\* frame_index and holds exactly the frames whose decode and recognition
\* succeeded, once each.
C5_SortedExactlyOnce ==
    (OcrReturned /\ ocr_result.status = "ok") =>
        /\ \A k \in 1..(Len(ocr_result.list) - 1) :
             ocr_result.list[k].frame_index < ocr_result.list[k + 1].frame_index
        /\ IndexSet(ocr_result.list) =
             {f - 1 : f \in {g \in 1..Len(frame_outcome) : frame_outcome[g] = "ok"}}
        /\ \A g \in 1..Len(frame_outcome) : frame_outcome[g] # "pending"

\* two workers, each with a recognised frame, and a frame that failed
C5_Witness ==
    /\ OcrReturned /\ ocr_result.status = "ok"
    /\ Len(worker) >= 2
    /\ \A c \in 1..Len(worker) : worker[c].worker_results # <<>>
    /\ \E g \in 1..Len(frame_outcome) : frame_outcome[g] \in {"decode_err", "ocr_err"}

\* C6: a frame whose decode or recognition fails adds no observation, adds one
\* to the progress counter, leaves its worker at the next frame of the chunk,
\* and the batch still returns Ok when no worker returned an error.
C6_FrameFailureSkipped ==
    /\ [][ \A c \in 1..Len(worker) :
             (/\ ocr_pc = "running"
              /\ worker[c].pc = "frame"
              /\ worker'[c] # worker[c]
              /\ frame_outcome'[chunks[c][worker[c].pos] + 1] \in {"decode_err", "ocr_err"})
             => /\ worker'[c].worker_results = worker[c].worker_results
                /\ worker'[c].pc = "emit"
                /\ worker'[c].pos = worker[c].pos + 1
                /\ progress_counter' = progress_counter + 1
                /\ saved_error' = saved_error
         ]_vars
    /\ [](  (OcrReturned /\ Len(worker) > 0
               /\ \A c \in 1..Len(worker) : worker[c].error = "") =>
              /\ ocr_result.status = "ok"
              /\ \A g \in 1..Len(frame_outcome) :
                   frame_outcome[g] \in {"decode_err", "ocr_err"} =>
                       (g - 1) \notin IndexSet(ocr_result.list) )

\* a batch returned Ok although the first frame of a chunk failed to decode
\* and the next one failed in recognition
C6_Witness ==
    /\ OcrReturned /\ ocr_result.status = "ok"
    /\ progress_counter = Len(frame_outcome)
    /\ \E c \in 1..Len(worker) :
         /\ Len(chunks[c]) >= 2
         /\ frame_outcome[chunks[c][1] + 1] = "decode_err"
         /\ frame_outcome[chunks[c][2] + 1] = "ocr_err"

\* C7: if engine construction fails for a worker, perform_ocr returns an
\* error and no list whatever the other workers did, and that worker calls
\* create_ocr_engine once only.
C7_EngineFailureFatal ==
    /\ \A c \in 1..Len(worker) :
         /\ worker[c].attempts <= 1
         /\ EngineFailed(c) =>
              (worker[c].pc = "err" /\ worker[c].engines = 0
                 /\ worker[c].worker_results = <<>>)
    /\ (OcrReturned /\ \E c \in 1..Len(worker) : EngineFailed(c)) =>
         (ocr_result.status = "err" /\ ocr_result.list = <<>>)

\* one worker's engine failed while another finished its chunk with results
C7_Witness ==
    /\ OcrReturned
    /\ \E c, d \in 1..Len(worker) :
         /\ EngineFailed(c)
         /\ worker[d].pc = "ok" /\ worker[d].worker_results # <<>>

\* C11: every returned entry carries the whitespace-collapsed text of a valid
\* input observation, so its normalized text is not empty, and when no input
\* observation is valid nothing is returned.
C11_FromValidObservations ==
    Returned =>
        /\ \A k \in 1..Len(subtitles) :
             /\ \E f \in 1..Len(frame_results) :
                  /\ ValidFrame(frame_results[f])
                  /\ subtitles[k].text = collapse_whitespace(frame_results[f].text)
             /\ normalize_text_for_compare(subtitles[k].text) # <<>>
        /\ (\A f \in 1..Len(frame_results) : ~ValidFrame(frame_results[f]))
             => subtitles = <<>>

\* an entry whose text is not the raw text of any observation was returned
\* for an input that also holds observations of either invalid kind
C11_Witness ==
    /\ Returned
    /\ \E k \in 1..Len(subtitles) :
         \A f \in 1..Len(frame_results) : subtitles[k].text # frame_results[f].text
    /\ \E f \in 1..Len(frame_results) :
         frame_results[f].confidence < min_confidence
    /\ \E f \in 1..Len(frame_results) :
         /\ frame_results[f].confidence >= min_confidence
         /\ KeyOfFrame(frame_results[f]) = <<>>

\* the spacing of the first two frames
RunSpacing == frame_results[2].time_ms - frame_results[1].time_ms

\* the input is two or more valid frames of one normalized text, none
\* URL-like, with one spacing d > 0 between consecutive time_ms
UniformRun ==
    /\ Len(frame_results) >= 2
    /\ RunSpacing > 0
    /\ \A f \in 1..(Len(frame_results) - 1) :
         frame_results[f + 1].time_ms = frame_results[f].time_ms + RunSpacing
    /\ \A f \in 1..Len(frame_results) :
         /\ ValidFrame(frame_results[f])
         /\ KeyOfFrame(frame_results[f]) = KeyOfFrame(frame_results[1])
         /\ ~text_looks_url_like(collapse_whitespace(frame_results[f].text))

OneEntrySpanning ==
    /\ Len(subtitles) = 1
    /\ subtitles[1].start_time = frame_results[1].time_ms
    /\ subtitles[1].end_time =
           frame_results[Len(frame_results)].time_ms + RunSpacing

\* C12 as claimed: a uniform run of one text returns, with merge_similar,
\* exactly one entry from the first time_ms to the last time_ms + d.
C12_UniformRunAnyTime ==
    (Returned /\ cleanup.merge_similar /\ UniformRun) => OneEntrySpanning

\* C12 as amended: the same, for runs whose last time_ms + d is representable
\* in u64, whatever max_gap_ms is.
C12_UniformRunOneEntry ==
    (/\ Returned /\ cleanup.merge_similar /\ UniformRun
     /\ frame_results[Len(frame_results)].time_ms + RunSpacing <= U64_MAX)
    => OneEntrySpanning

\* a run of three frames spaced wider than max_gap_ms: the stabilizer closed
\* a segment at every frame and one entry was returned
C12_Witness ==
    /\ Returned /\ cleanup.merge_similar
    /\ UniformRun /\ RunSpacing > cleanup.max_gap_ms
    /\ Len(segments) >= 3
    /\ Len(subtitles) = 1

(***************************************************************************)
(* C13: a non-positive fps is rejected before any processing               *)
(***************************************************************************)
\* the subtitle generation returned without having done anything
NothingGenerated ==
    /\ i = 0
    /\ segments = <<>>
    /\ current = None
    /\ on_progress_calls = <<>>
    /\ events = <<>>
    /\ subtitles = <<>>
    /\ raw_subtitles = <<>>

\* perform_ocr returned without having done anything
NothingRecognized ==
    /\ FileId \notin DOMAIN OCR_PROCESS_IDS
    /\ ocr_events = <<>>
    /\ worker = <<>>
    /\ frame_outcome = <<>>
    /\ progress_counter = 0
    /\ ocr_result.status = "err"
    /\ ocr_result.list = <<>>

\* C13 as stated: for fps <= 0 the three operations fail with 'FPS must be
\* greater than 0' before any processing (no frame examined, no callback, no
\* event, no job registered, nothing returned).
C13_FpsErrorAlways ==
    /\ (pc = "done" /\ fps <= 0) => (result = FpsError /\ NothingGenerated)
    /\ (OcrReturned /\ ocr_fps <= 0) =>
           (ocr_result.error = FpsError /\ NothingRecognized)

\* C13 as amended: for fps <= 0 the two subtitle operations fail with 'FPS
\* must be greater than 0'; perform_ocr fails with it when frames_dir names a
\* directory, and with the error of validate_directory_path otherwise; in
\* every case nothing is processed, emitted, registered or returned.
C13_FpsRejectedBeforeProcessing ==
    /\ (pc = "done" /\ fps <= 0) => (result = FpsError /\ NothingGenerated)
    /\ (OcrReturned /\ ocr_fps <= 0) =>
           /\ ocr_result.error =
                  IF frames_dir.kind = "dir" THEN FpsError
                  ELSE IF frames_dir.kind = "missing" THEN "Directory not found"
                  ELSE "Not a directory"
           /\ NothingRecognized

\* perform_ocr was called with fps <= 0 on a readable directory that holds
\* frames, with the models in place, and was rejected for its fps
C13_Witness ==
    /\ OcrReturned /\ ocr_fps <= 0
    /\ frames_dir.kind = "dir" /\ frames_dir.readable /\ frames_dir.frames >= 1
    /\ models_dir
    /\ ocr_result.error = FpsError

(***************************************************************************)
(* C14: zero input frames is not an error                                  *)
(***************************************************************************)
\* C14: perform_ocr with a valid fps on a readable directory that holds no
\* frame returns Ok with an empty list and constructs no engine, and
\* generate_subtitles_core with a valid fps on an empty frame list returns
\* Ok with zero entries.
C14_ZeroFramesOk ==
    /\ (/\ OcrReturned
        /\ ocr_fps > 0
        /\ frames_dir.kind = "dir" /\ frames_dir.readable
        /\ frames_dir.frames = 0) =>
           /\ ocr_result = OkResult(<<>>)
           /\ \A c \in 1..Len(worker) : worker[c].attempts = 0
    /\ (pc = "done" /\ fps > 0 /\ frame_results = <<>>) =>
           (result = "ok" /\ subtitles = <<>>)

(***************************************************************************)
(* C15: the URL filter                                                     *)
(***************************************************************************)
\* the entry `raw` built from a segment survives in the returned list: as
\* itself, or inside the entry it was merged into
Kept(raw) ==
    \E k \in 1..Len(subtitles) :
        /\ subtitles[k].start_time <= raw.start_time
        /\ raw.end_time <= subtitles[k].end_time
        /\ raw.confidence <= subtitles[k].confidence
        /\ (~cleanup.merge_similar =>
               (subtitles[k].text = raw.text /\ subtitles[k].end_time = raw.end_time))

\* C15: with filter_url_like = true no returned entry has a URL-like text,
\* merged entries included, and no entry with a text that is not URL-like is
\* removed; with filter_url_like = false no entry is removed for its text.
C15_UrlFilter ==
    Returned =>
        /\ cleanup.filter_url_like =>
              \A k \in 1..Len(subtitles) : ~text_looks_url_like(subtitles[k].text)
        /\ \A k \in 1..Len(raw_subtitles) :
              (~cleanup.filter_url_like \/ ~text_looks_url_like(raw_subtitles[k].text))
                 => Kept(raw_subtitles[k])
        /\ (~cleanup.filter_url_like /\ ~cleanup.merge_similar) =>
              subtitles = raw_subtitles

\* the filter dropped a URL-like entry that stood between two entries which
\* were kept
C15_Witness ==
    /\ Returned
    /\ cleanup.filter_url_like
    /\ Len(raw_subtitles) >= 3
    /\ ~text_looks_url_like(raw_subtitles[1].text)
    /\ text_looks_url_like(raw_subtitles[2].text)
    /\ ~text_looks_url_like(raw_subtitles[3].text)
    /\ Len(subtitles) >= 1

(***************************************************************************)
(* C16: what a merge leaves in the accumulated entry                       *)
(***************************************************************************)
\* the step about to be taken visits an entry while `merged` is not empty
VisitsAfterFirst ==
    merge_pc = "loop" /\ merge_pos < Len(merge_subtitles) /\ merged # <<>>

\* C16: when the entry visited is merged into the last accumulated entry, the
\* result keeps that entry's start_time (and id), its end_time and confidence
\* are the larger of the two, and its text is the text of the one with the
\* higher confidence; on equal confidences the longer text, the accumulated
\* entry's own text when the lengths are equal.
C16_MergeResult ==
    [][ (VisitsAfterFirst /\ Len(merged') = Len(merged)) =>
          LET prev == merged[Len(merged)]
              sub  == merge_subtitles[merge_pos + 1]
              res  == merged'[Len(merged)]
          IN  /\ res.start_time = prev.start_time
              /\ res.id = prev.id
              /\ res.end_time \in {prev.end_time, sub.end_time}
              /\ res.end_time >= prev.end_time /\ res.end_time >= sub.end_time
              /\ res.confidence \in {prev.confidence, sub.confidence}
              /\ res.confidence >= prev.confidence
              /\ res.confidence >= sub.confidence
              /\ sub.confidence > prev.confidence => res.text = sub.text
              /\ sub.confidence < prev.confidence => res.text = prev.text
              /\ sub.confidence = prev.confidence =>
                    res.text = IF Len(sub.text) > Len(prev.text)
                               THEN sub.text ELSE prev.text
              /\ \A k \in 1..(Len(merged) - 1) : merged'[k] = merged[k]
      ]_vars

\* a tie of confidences was decided for the longer, later text, and the merged
\* entry kept the end of the earlier entry, which was the later end
C16_Witness ==
    /\ merge_pc = "loop"
    /\ merge_pos = 2
    /\ Len(merged) = 1
    /\ merge_subtitles[1].confidence = merge_subtitles[2].confidence
    /\ Len(merge_subtitles[2].text) > Len(merge_subtitles[1].text)
    /\ merged[1].text = merge_subtitles[2].text
    /\ merge_subtitles[2].end_time < merge_subtitles[1].end_time
    /\ merged[1].end_time = merge_subtitles[1].end_time

(***************************************************************************)
(* C17: the ids of the returned entries                                    *)
(***************************************************************************)
\* C17: the i-th returned entry (counting from 1) has the id 'sub-i', for
\* every combination of filter_url_like and merge_similar and however many
\* entries were filtered or merged.
C17_SequentialIds ==
    Returned => \A k \in 1..Len(subtitles) : subtitles[k].id = sub_id(k)

(***************************************************************************)
(* C18: the similarity metric at threshold 1                               *)
(***************************************************************************)
ComparedAtOne == sim_pc = "compared" /\ sim_threshold = 100

\* `short` occurs in `long` as a run of consecutive characters
OccursIn(short, long) ==
    \E o \in 0..(Len(long) - Len(short)) :
        \A k \in 1..Len(short) : long[o + k] = short[k]

\* the number of positions at which two texts of one length differ
Mismatches(a, b) == Cardinality({k \in 1..Len(a) : a[k] # b[k]})

\* one text is a truncation of the other by at most two characters, or by at
\* most 30% of the longer
NearContainment(a, b) ==
    LET short == IF Len(a) <= Len(b) THEN a ELSE b
        long  == IF Len(a) <= Len(b) THEN b ELSE a
    IN  /\ OccursIn(short, long)
        /\ (Len(long) - Len(short) <= 2 \/ 10 * Len(short) >= 7 * Len(long))

\* two texts of one length below 6 that differ at one position
ShortDrift(a, b) ==
    Len(a) = Len(b) /\ Len(a) < 6 /\ Mismatches(a, b) = 1

\* C18 as stated: with threshold 1, texts_are_similar(a, b, 1.0) is true if
\* and only if a = b.
C18_ExactAtOne ==
    ComparedAtOne => (sim_ab <=> sim_a = sim_b)

\* C18 as amended: with threshold 1, texts_are_similar(a, b, 1.0) is true if
\* and only if a = b, or one text contains the other and is longer by at most
\* two characters or by at most 30% of its length, or both have the same
\* length below 6 and differ at exactly one position.
C18_SimilarAtOne ==
    ComparedAtOne =>
        (sim_ab <=> \/ sim_a = sim_b
                    \/ NearContainment(sim_a, sim_b)
                    \/ ShortDrift(sim_a, sim_b))

\* at threshold 1 two different keys of three characters, neither containing
\* the other, were judged similar
C18_Witness ==
    /\ ComparedAtOne
    /\ sim_a # sim_b
    /\ sim_ab
    /\ ~NearContainment(sim_a, sim_b)
    /\ Len(sim_a) = 3

(***************************************************************************)
(* C19: the candidate selector                                             *)
(***************************************************************************)
\* the candidates that share the key of candidate k
GroupOf(k) ==
    {j \in 1..Len(select_candidates) :
        select_candidates[j].key = select_candidates[k].key}

GroupMax(k) ==
    CHOOSE m \in {select_candidates[j].confidence : j \in GroupOf(k)} :
        \A j \in GroupOf(k) : select_candidates[j].confidence <= m

\* the reading of the group that reaches its maximum confidence first
GroupBest(k) ==
    CHOOSE j \in GroupOf(k) :
        /\ select_candidates[j].confidence = GroupMax(k)
        /\ \A h \in GroupOf(k) :
              h < j => select_candidates[h].confidence < GroupMax(k)

\* max_confidence + (group_count / total) * 0.05 + min(0.005 * chars, 0.05),
\* in units of 1 / (1000 * total)
GroupScore(k) ==
    LET total == Len(select_candidates)
        chars == Len(select_candidates[GroupBest(k)].text)
        bonus == IF 5 * chars < 50 THEN 5 * chars ELSE 50
    IN  10 * GroupMax(k) * total + 50 * Cardinality(GroupOf(k)) + bonus * total

\* C19: for a non-empty candidate list select_segment_text returns the
\* max-confidence display text and the raw max confidence of a group whose
\* score is maximal over all groups; for an empty list it returns nothing and
\* the segment yields no entry.
C19_SelectsBestGroup ==
    select_pc = "done" =>
        IF select_candidates = <<>>
        THEN select_result = None /\ select_entries = <<>>
        ELSE /\ select_result # None
             /\ \E k \in 1..Len(select_candidates) :
                   /\ Unwrap(select_result)[1] = select_candidates[GroupBest(k)].text
                   /\ Unwrap(select_result)[2] = GroupMax(k)
                   /\ \A j \in 1..Len(select_candidates) :
                         GroupScore(j) <= GroupScore(k)
             /\ Len(select_entries) = 1
             /\ select_entries[1].text = Unwrap(select_result)[1]
             /\ select_entries[1].confidence = Unwrap(select_result)[2]

\* the group selected is not the one with the highest confidence: its
\* frequency decided
C19_Witness ==
    /\ select_pc = "done"
    /\ Len(select_candidates) = 3
    /\ select_result # None
    /\ \E j \in 1..Len(select_candidates) :
          select_candidates[j].confidence > Unwrap(select_result)[2]
    /\ Len(Unwrap(select_result)[1]) = 2

(***************************************************************************)
(* C20: the end time of a segment                                          *)
(***************************************************************************)
\* the pairs of consecutive observations with a positive time delta
UsablePairs ==
    {k \in 1..(Len(timing_frames) - 1) :
        timing_frames[k + 1].time_ms > timing_frames[k].time_ms}

DeltaAt(k) == timing_frames[k + 1].time_ms - timing_frames[k].time_ms

\* m is the element at position floor(n / 2), counting from 0, of the n
\* positive deltas in ascending order: the median, the upper one for even n
IsMedianDelta(m) ==
    LET half == Cardinality(UsablePairs) \div 2
    IN  /\ \E k \in UsablePairs : DeltaAt(k) = m
        /\ Cardinality({k \in UsablePairs : DeltaAt(k) < m}) <= half
        /\ Cardinality({k \in UsablePairs : DeltaAt(k) <= m}) > half

\* (last_seen_frame_index + 1) * (1000 / fps), rounded, as a u64
FpsEnd ==
    LET ms == ((2 * (timing_seg.last_seen_frame_index + 1) * 1000) + timing_fps)
                 \div (2 * timing_fps)
    IN  IF ms > U64_MAX THEN U64_MAX ELSE ms

\* C20 as stated: the end time is last_seen_time plus the median of the
\* positive deltas when at least two usable deltas exist, and the fps-derived
\* end of the last seen frame when fewer than two exist.
C20_MedianFromTwoDeltas ==
    timing_pc = "done" =>
        IF Cardinality(UsablePairs) >= 2
        THEN \E m \in 1..U64_MAX :
                IsMedianDelta(m) /\ timing_end = timing_seg.last_seen_time + m
        ELSE timing_end = FpsEnd

\* C20 as amended: the end time is last_seen_time plus the (upper) median of
\* the positive deltas when at least one usable delta exists and the sum fits
\* a u64, and the fps-derived end of the last seen frame otherwise; an end
\* that does not exceed start_time is replaced by start_time + 1, saturating.
C20_EndTime ==
    timing_pc = "done" =>
        \E base \in 0..U64_MAX :
            /\ IF /\ UsablePairs # {}
                  /\ \E m \in 1..U64_MAX :
                        /\ IsMedianDelta(m)
                        /\ timing_seg.last_seen_time + m <= U64_MAX
               THEN \E m \in 1..U64_MAX :
                       IsMedianDelta(m) /\ base = timing_seg.last_seen_time + m
               ELSE base = FpsEnd
            /\ timing_end = IF base > timing_seg.start_time THEN base
                            ELSE IF timing_seg.start_time = U64_MAX THEN U64_MAX
                            ELSE timing_seg.start_time + 1

\* one positive delta among the observations, and the segment ended one such
\* delta after it was last seen, not at the fps-derived end
C20_Witness ==
    /\ timing_pc = "done"
    /\ Cardinality(UsablePairs) = 1
    /\ Len(timing_frames) >= 3
    /\ \E k \in UsablePairs : timing_end = timing_seg.last_seen_time + DeltaAt(k)
    /\ timing_end # FpsEnd

\* ---------------------------------------------------------------------------
\* C21: every worker of perform_ocr calls create_ocr_engine at most once and
\* only after its chunk-start cancellation poll (a worker that has not passed
\* the poll holds no engine, a worker inside its loop holds exactly one); the
\* engine it holds is run only on frames of its own chunk, and no two workers
\* hold the same engine instance.
FramesOfChunk(c) == {chunks[c][k] : k \in 1..Len(chunks[c])}

FinishedFrames(outcomes) == {k \in 1..Len(outcomes) : outcomes[k] # "pending"}

C22_ProgressCounter ==
    /\ [][ /\ progress_counter' >= progress_counter
           /\ (\/ progress_counter' # progress_counter
               \/ FinishedFrames(frame_outcome') # FinishedFrames(frame_outcome)) =>
                 /\ ocr_pc = "running"
                 /\ progress_counter' = progress_counter + 1
                 /\ \E k \in 1..Len(frame_outcome) :
                       /\ frame_outcome[k] = "pending"
                       /\ FinishedFrames(frame_outcome') =
                              FinishedFrames(frame_outcome) \cup {k} ]_vars
    /\ [](progress_counter = Cardinality(FinishedFrames(frame_outcome)))
    /\ [](progress_counter <= Len(frame_outcome))
    /\ []((OcrReturned /\ ocr_result.status = "ok") =>
              progress_counter = frames_dir.frames)

\* a successful batch of two workers in which one frame was recognised and
\* another was skipped, with the counter at the total
C22_Witness ==
    /\ OcrReturned
    /\ ocr_result.status = "ok"
    /\ Len(worker) >= 2
    /\ \E k \in 1..Len(frame_outcome) : frame_outcome[k] = "ok"
    /\ \E k \in 1..Len(frame_outcome) : frame_outcome[k] \in {"decode_err", "ocr_err"}
    /\ progress_counter = Len(frame_outcome)

\* ---------------------------------------------------------------------------
\* the entries built before the URL filter that went into returned entry k:
\* those that passed the filter and start at or after entry k and before
\* entry k + 1
MergedInto(k) ==
    {r \in 1..Len(raw_subtitles) :
        /\ cleanup.filter_url_like => ~text_looks_url_like(raw_subtitles[r].text)
        /\ raw_subtitles[r].start_time >= subtitles[k].start_time
        /\ k < Len(subtitles) =>
              raw_subtitles[r].start_time < subtitles[k + 1].start_time}

\* the confidences of the valid observations grouped into the segment that
\* raw entry r was built from
GroupedConfidences(r) ==
    {frame_results[f].confidence : f \in
        {f \in 1..Len(frame_results) :
           /\ ValidFrame(frame_results[f])
           /\ \E s \in 1..Len(segments) :
                 /\ segments[s].start_time = raw_subtitles[r].start_time
                 /\ segments[s].start_time <= frame_results[f].time_ms
                 /\ frame_results[f].time_ms <= segments[s].last_seen_time
                 /\ \E c \in 1..Len(segments[s].candidates) :
                       segments[s].candidates[c] =
                          SegmentCandidate(KeyOfFrame(frame_results[f]),
                                           collapse_whitespace(frame_results[f].text),
                                           frame_results[f].confidence)}}

\* C23: the input confidences lying in [0, 1], every returned entry has a
\* confidence in [0, 1] that is the confidence of one of the valid
\* observations grouped into a segment merged into the entry.
C23_ConfidenceOfObservation ==
    (Returned /\ \A f \in 1..Len(frame_results) :
                    frame_results[f].confidence \in 0..100) =>
        \A k \in 1..Len(subtitles) :
            /\ subtitles[k].confidence \in 0..100
            /\ \E r \in MergedInto(k) :
                  subtitles[k].confidence \in GroupedConfidences(r)

\* one returned entry merged from two segments of different confidence
C23_Witness ==
    /\ Returned
    /\ Len(subtitles) = 1
    /\ Len(raw_subtitles) = 2
    /\ MergedInto(1) = {1, 2}
    /\ raw_subtitles[1].confidence # raw_subtitles[2].confidence

\* ---------------------------------------------------------------------------
\* the observation the loop is about to process
AtFrame == pc = "loop" /\ i < Len(frame_results)
NextFrame == frame_results[i + 1]

\* time_ms - last_seen_time <= max_gap_ms, the difference saturating at 0
WithinGap(frame, seg) ==
    frame.time_ms >= seg.last_seen_time =>
        frame.time_ms - seg.last_seen_time <= cleanup.max_gap_ms

\* the baseline of seg is one of its candidates, of maximal confidence
BaselineIsBestCandidate(seg) ==
    \E c \in 1..Len(seg.candidates) :
        /\ seg.candidates[c].key = seg.baseline_key
        /\ seg.candidates[c].confidence = seg.baseline_confidence
        /\ \A d \in 1..Len(seg.candidates) :
              seg.candidates[d].confidence <= seg.baseline_confidence

\* C24: with a segment active, a valid observation within max_gap_ms that is
\* similar to the baseline extends the segment: no segment is closed,
\* last_seen_time and last_seen_frame_index become the observation's, its
\* candidate is appended, and it becomes the baseline exactly when its
\* confidence exceeds baseline_confidence; so the baseline of every segment,
\* open or closed, is one of its candidates of maximal confidence, and the
\* similarity is judged against the baseline as promoted so far.
C24_ExtendAndPromote ==
    /\ [][ (/\ AtFrame /\ current # None
            /\ ValidFrame(NextFrame)
            /\ WithinGap(NextFrame, current[1])
            /\ ConfiguredSimilar(current[1].baseline_key, KeyOfFrame(NextFrame)))
           =>
            /\ segments' = segments
            /\ current' # None
            /\ current'[1].start_time = current[1].start_time
            /\ current'[1].last_seen_time = NextFrame.time_ms
            /\ current'[1].last_seen_frame_index = NextFrame.frame_index
            /\ current'[1].candidates =
                   Append(current[1].candidates,
                          SegmentCandidate(KeyOfFrame(NextFrame),
                                           collapse_whitespace(NextFrame.text),
                                           NextFrame.confidence))
            /\ IF NextFrame.confidence > current[1].baseline_confidence
               THEN /\ current'[1].baseline_key = KeyOfFrame(NextFrame)
                    /\ current'[1].baseline_confidence = NextFrame.confidence
               ELSE /\ current'[1].baseline_key = current[1].baseline_key
                    /\ current'[1].baseline_confidence =
                           current[1].baseline_confidence
         ]_vars
    /\ [](/\ current # None => BaselineIsBestCandidate(current[1])
          /\ \A s \in 1..Len(segments) : BaselineIsBestCandidate(segments[s]))

\* a segment whose baseline was promoted to another key than its first
\* candidate's, and then extended by an observation of lower confidence
C24_Witness ==
    /\ current # None
    /\ last.kind = "extend"
    /\ Len(current[1].candidates) >= 3
    /\ current[1].baseline_key # current[1].candidates[1].key
    /\ current[1].candidates[Len(current[1].candidates)].confidence
          < current[1].baseline_confidence

\* ---------------------------------------------------------------------------
\* C25: with a segment active, a valid observation within max_gap_ms that is
\* dissimilar to the baseline, when neither of the next two observations is
\* valid and similar to the baseline, closes the segment (it is appended
\* unchanged to the closed segments) and opens a new segment with the
\* observation as baseline.
C25_DissimilarClosesAndOpens ==
    [][ (DissimilarInGap /\ ~NearFutureMatch) =>
          /\ segments' = Append(segments, current[1])
          /\ current' # None
          /\ current'[1].start_time = NextFrame.time_ms
          /\ current'[1].baseline_key = KeyOfFrame(NextFrame)
          /\ current'[1].baseline_confidence = NextFrame.confidence
      ]_vars

\* a segment was closed by a dissimilar observation although the observation
\* after it carries the old baseline's key, below min_confidence
C25_Witness ==
    /\ AtFrame
    /\ last.kind = "dissimilar_reopen"
    /\ ~ValidFrame(NextFrame)
    /\ KeyOfFrame(NextFrame) = segments[Len(segments)].baseline_key
    /\ current # None
    /\ current[1].baseline_key # segments[Len(segments)].baseline_key

\* ---------------------------------------------------------------------------
\* the segment the stabilizer opens on the observation it is about to process
OpenedOnNextFrame ==
    [start_time |-> NextFrame.time_ms,
     last_seen_time |-> NextFrame.time_ms,
     last_seen_frame_index |-> NextFrame.frame_index,
     baseline_key |-> KeyOfFrame(NextFrame),
     baseline_confidence |-> NextFrame.confidence,
     candidates |-> << [key |-> KeyOfFrame(NextFrame),
                        text |-> collapse_whitespace(NextFrame.text),
                        confidence |-> NextFrame.confidence] >>]

\* C26: with a segment active, a valid observation with
\* time_ms - last_seen_time > max_gap_ms closes the segment and opens a new
\* one with the observation as baseline, whatever its key: also when the key
\* equals the baseline key, and also when a later observation would have made
\* it a blip.
C26_GapTimeout ==
    [][ (/\ AtFrame /\ current # None
         /\ ValidFrame(NextFrame)
         /\ NextFrame.time_ms - current[1].last_seen_time > cleanup.max_gap_ms)
        =>
         /\ segments' = Append(segments, current[1])
         /\ current' = <<OpenedOnNextFrame>>
      ]_vars

\* a gap timeout closed a segment on an observation carrying the baseline
\* key itself
C26_Witness ==
    /\ last.kind = "gap_reopen"
    /\ current # None
    /\ current[1].baseline_key = segments[Len(segments)].baseline_key
    /\ current[1].start_time - segments[Len(segments)].last_seen_time
           > cleanup.max_gap_ms

\* ---------------------------------------------------------------------------
\* C27: with a segment active, an invalid observation closes the segment and
\* leaves no segment active exactly when time_ms - last_seen_time exceeds
\* max_gap_ms; otherwise the closed segments and the active segment, its
\* last_seen_time included, are left as they were: a gap equal to max_gap_ms
\* does not close the segment.
C27_InvalidObservation ==
    [][ (AtFrame /\ current # None /\ ~ValidFrame(NextFrame)) =>
          IF NextFrame.time_ms - current[1].last_seen_time > cleanup.max_gap_ms
          THEN /\ segments' = Append(segments, current[1])
               /\ current' = None
          ELSE /\ segments' = segments
               /\ current' = current
      ]_vars

\* an invalid observation exactly max_gap_ms after the segment was last seen
\* has been processed and the segment is still active
C27_Witness ==
    /\ pc = "loop"
    /\ i >= 1
    /\ last.kind = "invalid_keep"
    /\ current # None
    /\ cleanup.max_gap_ms > 0
    /\ frame_results[i].time_ms - current[1].last_seen_time = cleanup.max_gap_ms

\* ---------------------------------------------------------------------------
\* the step opens a segment: a segment is active after it that was not
\* active before it
OpensSegment ==
    /\ AtFrame
    /\ i' = i + 1
    /\ current' # None
    /\ \/ current = None
       \/ Len(segments') > Len(segments)
       \/ current'[1].start_time # current[1].start_time

\* C28: a segment is opened only on a valid observation, and the segment
\* opened has start_time = last_seen_time = time_ms, last_seen_frame_index =
\* frame_index, the observation's key and confidence as baseline and the
\* observation as its only candidate; a valid observation met with no active
\* segment opens one, and so does the observation that closes a segment by a
\* gap timeout or by a confirmed change of text.
C28_OpenedSegment ==
    [][ /\ OpensSegment =>
             /\ ValidFrame(NextFrame)
             /\ current' = <<OpenedOnNextFrame>>
        /\ (AtFrame /\ i' = i + 1 /\ current = None /\ ValidFrame(NextFrame)) =>
             /\ OpensSegment
             /\ segments' = segments
        /\ (AtFrame /\ i' = i + 1 /\ current # None /\ ValidFrame(NextFrame)
               /\ Len(segments') > Len(segments)) => OpensSegment
      ]_vars

\* three segments have been opened: the first with no segment active, the
\* second after a gap timeout, the third after a confirmed change of text
C28_Witness ==
    /\ last.kind = "dissimilar_reopen"
    /\ Len(segments) = 2
    /\ current # None
    /\ segments[2].start_time - segments[1].last_seen_time > cleanup.max_gap_ms
    /\ Len(current[1].candidates) = 1

\* ---------------------------------------------------------------------------
\* start_time of the closed segments followed by that of the open one
StartTimesOf(segs) == [s \in 1..Len(segs) |-> segs[s].start_time]

\* C29: at the end of the input the open segment, if any, is closed; the
\* closed segments are then the segments that were opened, each once and in
\* the order of opening (while the loop runs: the closed segments followed by
\* the open one), and the entries built before filtering are one for each
\* segment, in the same order.
C29_EverySegmentOnce ==
    /\ pc = "loop" =>
          StartTimesOf(segments \o current) = last.opened
    /\ Returned =>
          /\ current = None
          /\ StartTimesOf(segments) = last.opened
          /\ Len(raw_subtitles) = Len(segments)
          /\ \A k \in 1..Len(segments) :
                raw_subtitles[k].start_time = segments[k].start_time

\* the input ended with a segment open after two others had been closed
C29_Witness ==
    /\ Returned
    /\ Len(segments) = 3
    /\ segments[3].last_seen_time = frame_results[Len(frame_results)].time_ms
    /\ ValidFrame(frame_results[Len(frame_results)])

\* ---------------------------------------------------------------------------
\* C30: an observation absorbed as a blip is bracketed by consistent
\* readings: no closed segment has an absorbed blip as its last seen
\* observation.
C30_BlipBracketed ==
    \A s \in 1..Len(segments) :
        segments[s].last_seen_frame_index \notin last.absorbed

\* ---------------------------------------------------------------------------
\* the accumulated entry and the entry visited by the step about to be taken
MergePrev == merged[Len(merged)]
MergeSub == merge_subtitles[merge_pos + 1]

\* max(0, start_i - previous.end_time)
MergeGap ==
    IF MergeSub.start_time > MergePrev.end_time
    THEN MergeSub.start_time - MergePrev.end_time ELSE 0

MergeThreshold == clamp_f64(merge_cleanup.similarity_threshold, 80, 98)

SimilarAt(threshold) ==
    texts_are_similar(normalize_text_for_compare(MergePrev.text),
                      normalize_text_for_compare(MergeSub.text), threshold)

EitherShort ==
    \/ MergePrev.end_time - MergePrev.start_time < merge_cleanup.min_cue_duration_ms
    \/ MergeSub.end_time - MergeSub.start_time < merge_cleanup.min_cue_duration_ms

\* C31: in the adjacent-merge pass the entry visited is merged into the
\* accumulated previous entry (the list keeps its length) exactly when
\* max(0, start - previous.end_time) <= max_gap_ms and the normalized texts
\* are similar at the configured threshold, or one of the two durations is
\* below min_cue_duration_ms and they are similar at 0.80; otherwise, and for
\* the first entry, the entry is appended unchanged.
C31_MergeCondition ==
    [][ /\ VisitsAfterFirst =>
             IF /\ MergeGap <= merge_cleanup.max_gap_ms
                /\ (SimilarAt(MergeThreshold) \/ (EitherShort /\ SimilarAt(80)))
             THEN /\ Len(merged') = Len(merged)
                  /\ merged'[Len(merged)].start_time = MergePrev.start_time
                  /\ merged'[Len(merged)].end_time >= MergeSub.end_time
             ELSE merged' = Append(merged, MergeSub)
        /\ (merge_pc = "loop" /\ merge_pos < Len(merge_subtitles) /\ merged = <<>>)
             => merged' = <<MergeSub>>
      ]_vars

\* two entries similar at 0.80 only were merged because one of them is short,
\* and the third entry, as similar but with both cues long, was appended
C31_Witness ==
    /\ merge_pc = "loop"
    /\ merge_pos = 3
    /\ Len(merged) = 2
    /\ merged[1].start_time = merge_subtitles[1].start_time
    /\ merged[1].end_time >= merge_subtitles[2].end_time
    /\ merge_subtitles[2].start_time <= merged[1].end_time
    /\ merged[2] = merge_subtitles[3]
    /\ LET k1 == normalize_text_for_compare(merge_subtitles[1].text)
           k2 == normalize_text_for_compare(merge_subtitles[2].text)
           k3 == normalize_text_for_compare(merge_subtitles[3].text)
       IN  /\ ~texts_are_similar(k1, k2, MergeThreshold)
           /\ texts_are_similar(k1, k2, 80)
           /\ ~texts_are_similar(k1, k3, MergeThreshold)
           /\ texts_are_similar(k1, k3, 80)
           /\ merged[1].text = merge_subtitles[1].text
    /\ merge_subtitles[3].start_time - merged[1].end_time <= merge_cleanup.max_gap_ms

\* ---------------------------------------------------------------------------
Compared == sim_pc = "compared"
ShorterKey == IF Len(sim_a) <= Len(sim_b) THEN sim_a ELSE sim_b
LongerKey == IF Len(sim_a) <= Len(sim_b) THEN sim_b ELSE sim_a

\* one of the two keys is a proper substring of the other
ProperSubstring == sim_a # sim_b /\ OccursIn(ShorterKey, LongerKey)

\* the lengths differ by at most 2, or the shorter is at least 70% of the longer
CloseInSize ==
    \/ Len(LongerKey) - Len(ShorterKey) <= 2
    \/ 10 * Len(ShorterKey) >= 7 * Len(LongerKey)

\* C32: when one key is a proper substring of the other, texts_are_similar is
\* true whenever the lengths differ by at most 2 or the shorter length is at
\* least 70% of the longer, at every threshold and also when the shorter key
\* has fewer than 6 characters; when neither holds, it is false at every
\* threshold from 0.80 to 0.98.
C32_Containment ==
    (Compared /\ ProperSubstring) =>
        /\ CloseInSize => sim_ab
        /\ (~CloseInSize /\ sim_threshold \in 80..98) => ~sim_ab

\* a key of fewer than 6 characters was judged similar, at threshold 1, to a
\* longer key containing it
C32_Witness ==
    /\ Compared
    /\ ProperSubstring
    /\ Len(ShorterKey) \in 1..5
    /\ Len(LongerKey) = Len(ShorterKey) + 2
    /\ sim_threshold = 100
    /\ sim_ab

\* ---------------------------------------------------------------------------
\* the keys differ and the containment heuristic does not accept them
PastContainment ==
    sim_a # sim_b /\ ~(OccursIn(ShorterKey, LongerKey) /\ CloseInSize)

\* C33: for unequal keys the containment heuristic does not accept, the
\* shorter of fewer than 6 characters, texts_are_similar is true exactly when
\* the keys have the same length and differ at exactly one position, at every
\* threshold; a difference of length, or two and more differing positions,
\* give false.
C33_ShortTextPath ==
    (Compared /\ PastContainment /\ Len(ShorterKey) < 6) =>
        (sim_ab <=> (Len(sim_a) = Len(sim_b) /\ Mismatches(sim_a, sim_b) = 1))

\* two keys of three characters differing at two positions were judged not
\* similar at threshold 0.5
C33_Witness ==
    /\ Compared
    /\ Len(sim_a) = 3 /\ Len(sim_b) = 3
    /\ Mismatches(sim_a, sim_b) = 2
    /\ sim_threshold = 50
    /\ ~sim_ab

\* ---------------------------------------------------------------------------
\* the Levenshtein distance by the full table: EditRow is the row of the
\* table for one more character of b, EditTable the rows for b[1..j]
RECURSIVE EditRow(_, _, _, _)
EditRow(a, ch, above, row) ==
    IF Len(row) = Len(a) + 1 THEN row
    ELSE LET k == Len(row)
             step == IF a[k] = ch THEN 0 ELSE 1
             best == Min2(above[k] + step, Min2(above[k + 1] + 1, row[k] + 1))
         IN  EditRow(a, ch, above, Append(row, best))

RECURSIVE EditTable(_, _, _)
EditTable(a, b, j) ==
    IF j = 0 THEN << [k \in 1..(Len(a) + 1) |-> k - 1] >>
    ELSE LET rows == EditTable(a, b, j - 1)
         IN  Append(rows, EditRow(a, b[j], rows[j], <<j>>))

EditDistance == EditTable(ShorterKey, LongerKey, Len(LongerKey))[Len(LongerKey) + 1][Len(ShorterKey) + 1]

\* ceil((1 - t) * max_len), t in hundredths
DistanceBound == (((100 - sim_threshold) * Len(LongerKey)) + 99) \div 100

\* the comparison reaches the long-text path with a threshold in [0, 1]
LongTextPath ==
    /\ Compared /\ PastContainment
    /\ Len(ShorterKey) >= 6
    /\ sim_threshold \in 0..100

\* C34: for unequal keys not accepted by containment, both of 6 characters
\* and more, texts_are_similar(a, b, t) is true exactly when the Levenshtein
\* distance d is at most ceil((1 - t) * max_len) and 1 - d / max_len >= t;
\* levenshtein_distance_bounded gives the exact distance when it is within
\* the bound and nothing otherwise, in either order of its arguments.
C34_LongTextPath ==
    LongTextPath =>
        /\ sim_ab <=> /\ EditDistance <= DistanceBound
                      /\ (Len(LongerKey) - EditDistance) * 100
                            >= sim_threshold * Len(LongerKey)
        /\ levenshtein_distance_bounded(sim_a, sim_b, DistanceBound) =
              (IF EditDistance <= DistanceBound THEN <<EditDistance>> ELSE <<>>)
        /\ levenshtein_distance_bounded(sim_b, sim_a, DistanceBound) =
              levenshtein_distance_bounded(sim_a, sim_b, DistanceBound)

\* keys whose lengths differ by no more than the bound were rejected because
\* a whole row of the table exceeds the bound before the last row
C34_Witness ==
    /\ LongTextPath
    /\ ~sim_ab
    /\ Len(LongerKey) - Len(ShorterKey) <= DistanceBound
    /\ DistanceBound >= 1
    /\ \E j \in 1..(Len(LongerKey) - 1) :
          \A k \in 1..(Len(ShorterKey) + 1) :
             EditTable(ShorterKey, LongerKey, j)[j + 1][k] > DistanceBound

\* ---------------------------------------------------------------------------
Chunked == chunk_pc = "done"

\* N: the configured number of workers, at least 1
ConfiguredWorkers == IF chunk_workers >= 1 THEN chunk_workers ELSE 1

\* ceil(total / N)
ChunkSize == (chunk_total + ConfiguredWorkers - 1) \div ConfiguredWorkers

\* every chunk but the last holds ChunkSize frames, the last between 1 and
\* ChunkSize
ChunkSizes ==
    /\ \A c \in 1..(Len(chunk_list) - 1) : Len(chunk_list[c]) = ChunkSize
    /\ Len(chunk_list) >= 1
    /\ Len(chunk_list[Len(chunk_list)]) \in 1..ChunkSize

\* the chunks are the frame list cut at chunk boundaries: every frame is in
\* exactly one chunk, consecutive frames are consecutive within a chunk and
\* from one chunk to the next
ContiguousPartition ==
    /\ \A f \in 0..(chunk_total - 1) :
          Cardinality({ck \in (1..Len(chunk_list)) \X (1..chunk_total) :
                          /\ ck[2] <= Len(chunk_list[ck[1]])
                          /\ chunk_list[ck[1]][ck[2]] = f}) = 1
    /\ \A c \in 1..Len(chunk_list) :
          /\ \A k \in 1..(Len(chunk_list[c]) - 1) :
                chunk_list[c][k + 1] = chunk_list[c][k] + 1
          /\ chunk_list[c][1] =
                IF c = 1 THEN 0
                ELSE chunk_list[c - 1][Len(chunk_list[c - 1])] + 1

\* C35 as claimed: for total >= N >= 1 the frame list is split into exactly N
\* contiguous chunks of ceil(total / N) frames (the last possibly shorter),
\* one per worker of a pool of N threads, every frame in exactly one chunk
\* and in input order.
C35_ExactlyNChunks ==
    (Chunked /\ chunk_total >= ConfiguredWorkers) =>
        /\ Len(chunk_list) = ConfiguredWorkers
        /\ chunk_threads = ConfiguredWorkers
        /\ ChunkSizes
        /\ ContiguousPartition

\* C35 as amended: for total >= 1 and N = max(1, num_workers) the frame list
\* is split into ceil(total / chunk_size) contiguous chunks of
\* chunk_size = ceil(total / N) frames (the last possibly shorter), which is
\* at most N; the pool has one thread per chunk; every frame is in exactly
\* one chunk and in input order.
C35_AtMostNChunks ==
    Chunked =>
        /\ Len(chunk_list) = (chunk_total + ChunkSize - 1) \div ChunkSize
        /\ Len(chunk_list) <= ConfiguredWorkers
        /\ chunk_threads = Len(chunk_list)
        /\ ChunkSizes
        /\ ContiguousPartition

\* more frames than configured workers, and fewer chunks than workers
C35_Witness ==
    /\ Chunked
    /\ chunk_total > ConfiguredWorkers
    /\ Len(chunk_list) < ConfiguredWorkers
    /\ chunk_threads = Len(chunk_list)

\* ---------------------------------------------------------------------------
\* the entries built from the segments that the URL filter drops
DroppedByFilter ==
    {r \in 1..Len(raw_subtitles) :
        cleanup.filter_url_like /\ text_looks_url_like(raw_subtitles[r].text)}

\* C36: with merge_similar = false every candidate of a segment carries the
\* segment's baseline key (an observation absorbed as a blip never becomes a
\* candidate), and no entries are merged: the returned entries are the
\* entries built from the closed segments, one per segment, without those the
\* URL filter drops.
C36_ExactGrouping ==
    ~cleanup.merge_similar =>
        /\ \A seg \in {segments[s] : s \in 1..Len(segments)}
                     \cup {current[c] : c \in 1..Len(current)} :
              \A c \in 1..Len(seg.candidates) :
                 seg.candidates[c].key = seg.baseline_key
        /\ Returned =>
              /\ Len(raw_subtitles) = Len(segments)
              /\ Len(subtitles) = Len(segments) - Cardinality(DroppedByFilter)
              /\ \A k \in 1..Len(subtitles) :
                    \E r \in (1..Len(raw_subtitles)) \ DroppedByFilter :
                       subtitles[k] = raw_subtitles[r]

\* without merge_similar: consecutive segments of texts the metric would
\* have grouped, one of them holding two candidates across an absorbed blip,
\* and one entry dropped by the URL filter
C36_Witness ==
    /\ Returned
    /\ ~cleanup.merge_similar
    /\ DroppedByFilter # {}
    /\ Len(subtitles) >= 1
    /\ last.absorbed # {}
    /\ \E s \in 1..Len(segments) : Len(segments[s].candidates) >= 2

\* ---------------------------------------------------------------------------
\* C40 as claimed: every candidate of a closed segment is similar, at the
\* configured threshold, to the segment's final baseline key.
C40_SimilarToFinalBaseline ==
    \A s \in 1..Len(segments) :
        \A c \in 1..Len(segments[s].candidates) :
            ConfiguredSimilar(segments[s].baseline_key,
                              segments[s].candidates[c].key)

\* the candidate that was the baseline once the first m candidates of a
\* segment had been recorded: the first one, replaced by each later one of
\* strictly higher confidence
RECURSIVE BaselineAfter(_, _)
BaselineAfter(cands, m) ==
    IF m = 1 THEN cands[1]
    ELSE LET b == BaselineAfter(cands, m - 1)
         IN  IF cands[m].confidence > b.confidence THEN cands[m] ELSE b

\* C40, amended: every candidate after the first of a segment (closed or
\* open) was similar, at the configured threshold, to the baseline key the
\* segment had when the candidate was recorded, and the segment's baseline
\* key is the one left by the promotions; a candidate recorded before a
\* promotion need not be similar to the final baseline key.
C40_SimilarWhenRecorded ==
    LET all == segments \o current
    IN  \A s \in 1..Len(all) :
            LET cands == all[s].candidates
            IN  /\ all[s].baseline_key = BaselineAfter(cands, Len(cands)).key
                /\ \A c \in 2..Len(cands) :
                       ConfiguredSimilar(BaselineAfter(cands, c - 1).key,
                                         cands[c].key)

\* a closed segment whose baseline was promoted past a candidate that is
\* not similar to the final baseline key
C40_Witness ==
    \E s \in 1..Len(segments) :
        LET cands == segments[s].candidates
        IN  /\ Len(cands) >= 3
            /\ segments[s].baseline_key # cands[1].key
            /\ \E c \in 1..Len(cands) :
                   ~ConfiguredSimilar(segments[s].baseline_key, cands[c].key)

\* the "ocr-progress" events of the workers, in the order of delivery: the
\* events after the start event, without the completion event of a success
PerFrameEvents ==
    LET n == Len(ocr_events)
        upto == IF ocr_pc = "returned" /\ ocr_result.status = "ok" THEN n - 1 ELSE n
    IN  SubSeq(ocr_events, 2, upto)

\* C39: the `current` values of the per-frame progress events are delivered
\* in strictly increasing order, each a value of 1..total.
C39_StrictlyIncreasing ==
    /\ \A j \in 1..Len(PerFrameEvents) :
           PerFrameEvents[j].current \in 1..PerFrameEvents[j].total
    /\ \A j, k \in 1..Len(PerFrameEvents) :
           j < k => PerFrameEvents[j].current < PerFrameEvents[k].current

\* the part of C39 that survives the race: no value is delivered twice
C39_EachValueOnce ==
    /\ \A j \in 1..Len(PerFrameEvents) :
           PerFrameEvents[j].current \in 1..PerFrameEvents[j].total
    /\ \A j, k \in 1..Len(PerFrameEvents) :
           j # k => PerFrameEvents[j].current # PerFrameEvents[k].current

\* C38: once perform_ocr has returned, with any outcome, its job id is not a
\* key of OCR_PROCESS_IDS.
C38_UnregisteredOnReturn ==
    OcrReturned => FileId \notin DOMAIN OCR_PROCESS_IDS

\* C37: a worker reports 'OCR cancelled' only after a cancel_ocr_operation
\* call made once the job had registered itself: the id of a running job
\* leaves the registry by such a call only, a worker turns to 'OCR cancelled'
\* only while the id is absent, and a job with such a worker has been
\* cancelled.
C37_OnlyCancelCancels ==
    /\ [][ (/\ ocr_pc = "running"
            /\ FileId \in DOMAIN OCR_PROCESS_IDS
            /\ FileId \notin DOMAIN OCR_PROCESS_IDS') =>
               cancel_calls' = cancel_calls + 1 ]_vars
    /\ [][ \A c \in 1..Len(worker) :
             (ocr_pc = "running" /\ ~Observed(c) /\ worker'[c].error = CancelledError)
                => FileId \notin DOMAIN OCR_PROCESS_IDS ]_vars
    /\ []( (\E c \in 1..Len(worker) : Observed(c)) => cancel_calls > 0 )

====
